---- MODULE Spec2Model ----
(***************************************************************************)
(* A model of the natural-language reservation intent resolver of the      *)
(* restaurant booking backend (src/backend/gemini_service.py and           *)
(* src/backend/reservation_utils.py).                                      *)
(*                                                                         *)
(* Texts are sequences of one-character strings, so that lowercasing,      *)
(* punctuation stripping, whitespace splitting, substring tests and the    *)
(* regular expressions of the source are computed character by character.  *)
(* Confidences are integers in hundredths (0.7 is 70).                     *)
(***************************************************************************)
EXTENDS Integers, Sequences, FiniteSets, TLC

VARIABLES
    search,         \* the text handed to the fuzzy matcher (search_name)
    restaurants,    \* the candidate list (available_restaurants)
    match,          \* the matcher's last result
    mcall,          \* which matcher entry point produced match
    request,        \* the command of the resolution request
    enabled,        \* GeminiService.enabled
    clock,          \* the clock (now): [day, minute, second]
    outcome,        \* what the model collaborator did in the request
    model_text,     \* the text the model returned
    returned,       \* what process_voice_command returned or raised
    pc,             \* "ready" before the request, "done" after it
    schedule,       \* the restaurant of an operating-hours call
    booking,        \* the date and time of an operating-hours call
    hcall,          \* which operating-hours routine produced hresult
    hresult,        \* the result of the operating-hours routine
    phrase,         \* the text handed to a text routine
    tcall,          \* which text routine produced tresult
    tresult,        \* the result of the text routine
    calls,          \* concurrent process_voice_command calls, by call number
    posts,          \* the HTTP requests of the routes, by request number
    users,          \* the users collection
    reservations    \* the reservations collection

hours_vars == <<schedule, booking, hcall, hresult>>

text_vars == <<phrase, tcall, tresult>>

web_vars == <<calls, posts, users, reservations>>

vars == <<search, restaurants, match, mcall,
          request, enabled, clock, outcome, model_text, returned, pc,
          schedule, booking, hcall, hresult, phrase, tcall, tresult,
          calls, posts, users, reservations>>

(***************************************************************************)
(* Characters and the string primitives the source uses.                   *)
(***************************************************************************)
Alpha == <<"a","b","c","d","e","f","g","h","i","j","k","l","m",
           "n","o","p","q","r","s","t","u","v","w","x","y","z">>

Upper == <<"A","B","C","D","E","F","G","H","I","J","K","L","M",
           "N","O","P","Q","R","S","T","U","V","W","X","Y","Z">>

Digits == {"0","1","2","3","4","5","6","7","8","9"}

AlphaSet == {Alpha[i] : i \in DOMAIN Alpha}

UpperSet == {Upper[i] : i \in DOMAIN Upper}

\* \s of the regular expressions (the texts of the model hold no other whitespace)
IsSpace(c) == c = " "

\* \w of the regular expressions
IsWordChar(c) == c \in AlphaSet \/ c \in UpperSet \/ c \in Digits \/ c = "_"

LowerChar(c) ==
    IF c \in UpperSet THEN Alpha[CHOOSE i \in DOMAIN Upper : Upper[i] = c] ELSE c

\* str.lower()
lower(s) == [i \in 1..Len(s) |-> LowerChar(s[i])]

\* re.sub(r"[^\w\s]", " ", s)
SubPunctuation(s) ==
    [i \in 1..Len(s) |-> IF IsWordChar(s[i]) \/ IsSpace(s[i]) THEN s[i] ELSE " "]

RECURSIVE LStrip(_)
LStrip(s) == IF s # <<>> /\ IsSpace(s[1]) THEN LStrip(Tail(s)) ELSE s

RECURSIVE RStrip(_)
RStrip(s) ==
    IF s # <<>> /\ IsSpace(s[Len(s)]) THEN RStrip(SubSeq(s, 1, Len(s) - 1)) ELSE s

\* str.strip()
strip(s) == RStrip(LStrip(s))

\* the text with its runs of whitespace kept
KeepSpaces(s) == s

\* re.sub(r"\s+", " ", s): every maximal run of whitespace becomes one space
RECURSIVE CollapseSpaces(_)
CollapseSpaces(s) ==
    IF s = <<>> THEN <<>>
    ELSE IF IsSpace(s[1]) THEN <<" ">> \o CollapseSpaces(LStrip(s))
    ELSE <<s[1]>> \o CollapseSpaces(Tail(s))

\* the first word of a text that starts with a non-space character
RECURSIVE FirstWord(_)
FirstWord(s) ==
    IF s = <<>> \/ IsSpace(s[1]) THEN <<>> ELSE <<s[1]>> \o FirstWord(Tail(s))

\* str.split(): the maximal runs of non-whitespace characters, in order
RECURSIVE split(_)
split(s) ==
    LET t == LStrip(s)
    IN  IF t = <<>> THEN <<>>
        ELSE LET w == FirstWord(t)
             IN  <<w>> \o split(SubSeq(t, Len(w) + 1, Len(t)))

\* ' '.join(words)
RECURSIVE join(_)
join(words) ==
    IF words = <<>> THEN <<>>
    ELSE IF Len(words) = 1 THEN words[1]
    ELSE words[1] \o <<" ">> \o join(Tail(words))

\* sub occurs in s at position i
OccursAt(sub, s, i) ==
    /\ i >= 1
    /\ i + Len(sub) - 1 <= Len(s)
    /\ \A k \in 1..Len(sub) : s[i + k - 1] = sub[k]

\* Python's  sub in s  on strings
Contains(sub, s) == \E i \in 1..(Len(s) + 1) : OccursAt(sub, s, i)

\* re.search(rf"\b{re.escape(tok)}\b", s) for a token made of word characters
WordBoundarySearch(tok, s) ==
    /\ tok # <<>>
    /\ \E i \in 1..Len(s) :
          /\ OccursAt(tok, s, i)
          /\ (i = 1 \/ ~IsWordChar(s[i - 1]))
          /\ (i + Len(tok) - 1 = Len(s) \/ ~IsWordChar(s[i + Len(tok)]))

\* the elements of a sequence
Range(seq) == {seq[i] : i \in DOMAIN seq}

\* [w for w in words if len(w) > n]
RECURSIVE SelectLonger(_, _)
SelectLonger(words, n) ==
    IF words = <<>> THEN <<>>
    ELSE (IF Len(words[1]) > n THEN <<words[1]>> ELSE <<>>)
         \o SelectLonger(Tail(words), n)

\* the whole sequence, whatever n
TakeAll(seq, n) == seq

\* seq[:n]
Take(seq, n) == SubSeq(seq, 1, IF Len(seq) < n THEN Len(seq) ELSE n)

(***************************************************************************)
(* GeminiService._normalize_text                                           *)
(***************************************************************************)
_normalize_text(text) ==
    IF text = <<>> THEN <<>>
    ELSE strip(CollapseSpaces(SubPunctuation(lower(text))))

(***************************************************************************)
(* GeminiService._extract_guest_count                                      *)
(***************************************************************************)
DigitChars == <<"0","1","2","3","4","5","6","7","8","9">>

DigitValue(c) == (CHOOSE n \in DOMAIN DigitChars : DigitChars[n] = c) - 1

\* int(digits)
RECURSIVE IntOf(_)
IntOf(digits) ==
    IF digits = <<>> THEN 0
    ELSE IntOf(SubSeq(digits, 1, Len(digits) - 1)) * 10
         + DigitValue(digits[Len(digits)])

\* the longest run of digits of s that starts at position i
RECURSIVE DigitRun(_, _)
DigitRun(s, i) ==
    IF i > Len(s) \/ s[i] \notin Digits THEN <<>>
    ELSE <<s[i]>> \o DigitRun(s, i + 1)

\* the position of the first non-space character of s at or after i
RECURSIVE SkipSpaces(_, _)
SkipSpaces(s, i) ==
    IF i <= Len(s) /\ IsSpace(s[i]) THEN SkipSpaces(s, i + 1) ELSE i

\* the numbers captured by (\d+)\s*(u1|u2|...) in s from position i on, in
\* order: re.findall gives them all, re.search the first
RECURSIVE NumbersBefore(_, _, _)
NumbersBefore(units, s, i) ==
    IF i > Len(s) THEN <<>>
    ELSE LET run == DigitRun(s, i)
             j == SkipSpaces(s, i + Len(run))
         IN  IF run # <<>> /\ \E u \in units : OccursAt(u, s, j)
             THEN <<IntOf(run)>> \o NumbersBefore(units, s, j + 1)
             ELSE NumbersBefore(units, s, i + 1)

\* the numbers captured by  w1\s+w2\s+...\s+(\d+)  in s from position i on
RECURSIVE WordsThenSpaces(_, _, _)
WordsThenSpaces(cues, s, i) ==
    \* the position after cues[1]\s+cues[2]\s+... matched at i, 0 if no match
    IF cues = <<>> THEN i
    ELSE LET j == SkipSpaces(s, i + Len(cues[1]))
         IN  IF OccursAt(cues[1], s, i) /\ j > i + Len(cues[1])
             THEN WordsThenSpaces(Tail(cues), s, j)
             ELSE 0

RECURSIVE NumbersAfter(_, _, _)
NumbersAfter(cues, s, i) ==
    IF i > Len(s) THEN <<>>
    ELSE LET j == WordsThenSpaces(cues, s, i)
         IN  IF j # 0 /\ DigitRun(s, j) # <<>>
             THEN <<IntOf(DigitRun(s, j))>> \o NumbersAfter(cues, s, j)
             ELSE NumbersAfter(cues, s, i + 1)

RECURSIVE Sum(_)
Sum(numbers) == IF numbers = <<>> THEN 0 ELSE numbers[1] + Sum(Tail(numbers))

\* min(20, guests)
ClampGuestsAbove(guests) == IF guests > 20 THEN 20 ELSE guests

\* max(1, min(20, guests))
ClampGuests(guests) == IF guests > 20 THEN 20 ELSE IF guests < 1 THEN 1 ELSE guests

\* lines 218-224
number_words ==
    {  <<<<"z","e","r","o">>, 0>>,
       <<<<"o","n","e">>, 1>>,
       <<<<"t","w","o">>, 2>>,
       <<<<"t","h","r","e","e">>, 3>>,
       <<<<"f","o","u","r">>, 4>>,
       <<<<"f","i","v","e">>, 5>>,
       <<<<"s","i","x">>, 6>>,
       <<<<"s","e","v","e","n">>, 7>>,
       <<<<"e","i","g","h","t">>, 8>>,
       <<<<"n","i","n","e">>, 9>>,
       <<<<"t","e","n">>, 10>>,
       <<<<"e","l","e","v","e","n">>, 11>>,
       <<<<"t","w","e","l","v","e">>, 12>>,
       <<<<"t","h","i","r","t","e","e","n">>, 13>>,
       <<<<"f","o","u","r","t","e","e","n">>, 14>>,
       <<<<"f","i","f","t","e","e","n">>, 15>>,
       <<<<"s","i","x","t","e","e","n">>, 16>>,
       <<<<"s","e","v","e","n","t","e","e","n">>, 17>>,
       <<<<"e","i","g","h","t","e","e","n">>, 18>>,
       <<<<"n","i","n","e","t","e","e","n">>, 19>>,
       <<<<"t","w","e","n","t","y">>, 20>>,
       <<<<"c","o","u","p","l","e">>, 2>>,
       <<<<"p","a","i","r">>, 2>>,
       <<<<"s","i","n","g","l","e">>, 1>>,
       <<<<"a","l","o","n","e">>, 1>>  }

\* the first word of words that is a number word of a value other than 0
RECURSIVE FirstNumberWord(_)
FirstNumberWord(words) ==
    IF words = <<>> THEN 0
    ELSE LET hit == {p \in number_words : p[1] = words[1] /\ p[2] # 0}
         IN  IF hit # {} THEN (CHOOSE p \in hit : TRUE)[2]
             ELSE FirstNumberWord(Tail(words))

\* the value that stands for None (line 255)
NoGuestCount == -1

\* lines 238-247: the first pattern that matches, in the order of the list
GeneralPatternNumbers(norm) ==
    LET party == NumbersAfter(<< <<"p","a","r","t","y">>, <<"o","f">> >>, norm, 1)
        for == NumbersAfter(<< <<"f","o","r">> >>, norm, 1)
        people == NumbersBefore({<<"p","e","o","p","l","e">>,
                                 <<"p","e","r","s","o","n">>,
                                 <<"g","u","e","s","t">>,
                                 <<"s","e","a","t">>}, norm, 1)
    IN  IF party # <<>> THEN party
        ELSE IF for # <<>> THEN for
        ELSE people

_extract_guest_count(text) ==
    IF text = <<>> THEN NoGuestCount
    ELSE LET norm == _normalize_text(text)
             adults == Sum(NumbersBefore({<<"a","d","u","l","t">>}, norm, 1))
             kids == Sum(NumbersBefore({<<"k","i","d">>, <<"c","h","i","l","d">>},
                                       norm, 1))
             general == GeneralPatternNumbers(norm)
             word == FirstNumberWord(split(norm))
         IN  IF adults # 0 \/ kids # 0 THEN ClampGuests(adults + kids)
             ELSE IF general # <<>> THEN ClampGuests(general[1])
             ELSE IF word # 0 THEN ClampGuests(word)
             ELSE NoGuestCount

(***************************************************************************)
(* GeminiService._find_best_restaurant_match                               *)
(***************************************************************************)
AcceptThreshold == 55

AlternativeThreshold == 60

\* lines 437-454: the confidence of one restaurant that is no exact match
TokenConfidenceSubstring(search_tokens, name_norm) ==
    LET hits == {t \in Range(search_tokens) : Contains(t, name_norm)}
    IN  IF Cardinality(hits) >= 2 THEN 90
        ELSE IF Cardinality(hits) = 1 THEN 70
        ELSE 0

TokenConfidence(search_tokens, name_norm) ==
    LET name_tokens == SelectLonger(split(name_norm), 2)
        common == Range(search_tokens) \cap Range(name_tokens)
        token_overlap == Cardinality(common)
    IN  IF token_overlap >= 2 THEN 90
        ELSE IF token_overlap = 1
        THEN LET tok == CHOOSE t \in common : TRUE
             IN  IF WordBoundarySearch(tok, name_norm) THEN 70 ELSE 0
        ELSE IF \E t \in Range(search_tokens) :
                    Len(t) > 3 /\ WordBoundarySearch(t, name_norm)
        THEN 65
        ELSE 0

\* the locals of the loop of lines 424-459 before its first iteration
ScanStart ==
    [best_match |-> 0, best_confidence |-> 0, alternatives |-> <<>>,
     confidence |-> 0, exact |-> 0]

\* the loop with the return of line 430 lost: the scan goes on after an exact
\* match, and a later exact match replaces an earlier one
RECURSIVE ScanRestaurantsNoReturn(_, _, _, _, _)
ScanRestaurantsNoReturn(search_norm, search_tokens, rs, i, st) ==
    IF i > Len(rs) THEN st
    ELSE LET name_norm == _normalize_text(rs[i].name)
             confidence == TokenConfidence(search_tokens, name_norm)
             better == confidence > st.best_confidence
         IN  ScanRestaurantsNoReturn(search_norm, search_tokens, rs, i + 1,
               IF name_norm = search_norm THEN [st EXCEPT !.exact = i]
               ELSE [best_match |-> IF better THEN i ELSE st.best_match,
                     best_confidence |->
                         IF better THEN confidence ELSE st.best_confidence,
                     alternatives |->
                         IF confidence > AlternativeThreshold
                         THEN Append(st.alternatives, rs[i].name)
                         ELSE st.alternatives,
                     confidence |-> confidence,
                     exact |-> st.exact])

\* lines 424-459: the loop over the candidates from position i on; exact is
\* the position of the candidate whose exact match ended the loop (0: none)
RECURSIVE ScanRestaurants(_, _, _, _, _)
ScanRestaurants(search_norm, search_tokens, rs, i, st) ==
    IF i > Len(rs) THEN st
    ELSE LET name_norm == _normalize_text(rs[i].name)
         IN  IF name_norm = search_norm THEN [st EXCEPT !.exact = i]
             ELSE LET confidence == TokenConfidence(search_tokens, name_norm)
                      better == confidence > st.best_confidence
                  IN  ScanRestaurants(search_norm, search_tokens, rs, i + 1,
                        [best_match |-> IF better THEN i ELSE st.best_match,
                         best_confidence |->
                             IF better THEN confidence ELSE st.best_confidence,
                         alternatives |->
                             IF confidence > AlternativeThreshold
                             THEN Append(st.alternatives, rs[i].name)
                             ELSE st.alternatives,
                         confidence |-> confidence,
                         exact |-> 0])

\* lines 430-436
ExactResult(restaurant) ==
    [found |-> TRUE, name |-> restaurant.name, confidence |-> 100,
     restaurant_id |-> restaurant.id]

\* lines 460-475
BestResultLastConfidence(name, rs, st) ==
    IF st.best_match # 0
    THEN [found |-> TRUE, name |-> rs[st.best_match].name,
          confidence |-> st.confidence,
          restaurant_id |-> rs[st.best_match].id,
          alternatives |-> Take(st.alternatives, 3)]
    ELSE [found |-> FALSE, name |-> name, confidence |-> 0,
          alternatives |-> Take(st.alternatives, 5)]

BestResult(name, rs, st) ==
    IF st.best_match # 0 /\ st.best_confidence > AcceptThreshold
    THEN [found |-> TRUE, name |-> rs[st.best_match].name,
          confidence |-> st.best_confidence,
          restaurant_id |-> rs[st.best_match].id,
          alternatives |-> Take(st.alternatives, 3)]
    ELSE [found |-> FALSE, name |-> name, confidence |-> 0,
          alternatives |-> Take(st.alternatives, 5)]

\* lines 417 and 412: the result that names no restaurant
NoMatch == [found |-> FALSE, name |-> <<>>, confidence |-> 0]

_find_best_restaurant_match(name, rs) ==
    IF name = <<>> THEN NoMatch
    ELSE LET Scan(search_norm) ==
                 ScanRestaurants(search_norm, SelectLonger(split(search_norm), 2),
                                 rs, 1, ScanStart)
             Result(st) ==
                 IF st.exact # 0 THEN ExactResult(rs[st.exact])
                 ELSE BestResult(name, rs, st)
         IN  Result(Scan(_normalize_text(name)))

(***************************************************************************)
(* GeminiService._manual_restaurant_search                                 *)
(***************************************************************************)
\* the position of the first comma of s at or after i, Len(s) + 1 if none
RECURSIVE NextComma(_, _)
NextComma(s, i) ==
    IF i > Len(s) \/ s[i] = "," THEN i ELSE NextComma(s, i + 1)

\* re.findall(cue + r"\s+([^,\s](?:[^,]*[^,\s])?)", s) from position i on: after
\* the cue and at least one space, the text up to the next comma (or the end),
\* without its trailing spaces; the search resumes after each match
RECURSIVE FindAllAfter(_, _, _)
FindAllAfter(cue, s, i) ==
    IF i > Len(s) THEN <<>>
    ELSE LET gap == SubSeq(s, i + Len(cue), Len(s))
             start == i + Len(cue) + (Len(gap) - Len(LStrip(gap)))
         IN  IF /\ OccursAt(cue, s, i)
                /\ start > i + Len(cue)
                /\ start <= Len(s)
                /\ s[start] # ","
             THEN LET capture == RStrip(SubSeq(s, start, NextComma(s, start) - 1))
                  IN  <<capture>> \o FindAllAfter(cue, s, start + Len(capture))
             ELSE FindAllAfter(cue, s, i + 1)

\* lines 387-396: the texts after "at", then "book", then "reserve"
PatternNames(command_lower) ==
    FindAllAfter(<<"a","t">>, command_lower, 1)
    \o FindAllAfter(<<"b","o","o","k">>, command_lower, 1)
    \o FindAllAfter(<<"r","e","s","e","r","v","e">>, command_lower, 1)

\* lines 401-404: the windows words[i:j] for j from i + 1 up to i + 3
RECURSIVE WindowsAt(_, _, _)
WindowsAt(words, i, j) ==
    IF j > i + 3 \/ j > Len(words) + 1 THEN <<>>
    ELSE LET potential_name == join(SubSeq(words, i, j - 1))
         IN  (IF Len(potential_name) > 3 THEN <<potential_name>> ELSE <<>>)
             \o WindowsAt(words, i, j + 1)

\* the windows taken from the last start position back to the first
RECURSIVE WindowNamesBackwards(_, _)
WindowNamesBackwards(words, i) ==
    IF i > Len(words) THEN <<>>
    ELSE WindowNamesBackwards(words, i + 1) \o WindowsAt(words, i, i + 1)

\* lines 399-404
RECURSIVE WindowNames(_, _)
WindowNames(words, i) ==
    IF i > Len(words) THEN <<>>
    ELSE WindowsAt(words, i, i + 1) \o WindowNames(words, i + 1)

\* lines 382-404
PotentialNames(command) ==
    LET Names(command_lower) ==
            PatternNames(command_lower) \o WindowNames(split(command_lower), 1)
    IN  Names(lower(command))

\* lines 407-412
RECURSIVE FirstMatch(_, _)
FirstMatch(potential_names, rs) ==
    IF potential_names = <<>> THEN NoMatch
    ELSE LET OrNext(m) ==
                 IF m.found THEN m ELSE FirstMatch(Tail(potential_names), rs)
         IN  OrNext(_find_best_restaurant_match(strip(potential_names[1]), rs))

_manual_restaurant_search(command, rs) ==
    FirstMatch(PotentialNames(command), rs)

(***************************************************************************)
(* Dates, times and reservation_utils.validate_reservation_time.           *)
(*                                                                         *)
(* A date is a day number and a clock time a minute of the day.  A date    *)
(* string is [kind, day] with kind "ymd" (a YYYY-MM-DD string), "bad" (any *)
(* other string) or "null" (not a string); a time string is [kind, minute] *)
(* with kind "hhmm" (HH:MM), "ampm" (HH:MM AM/PM), "bad" or "null".  The   *)
(* clock is [day, minute, second] in the process's zone.                   *)
(***************************************************************************)
DayNames ==
    <<"monday", "tuesday", "wednesday", "thursday", "friday", "saturday", "sunday">>

\* the name of the day after
DayNameOfNextDay(day) == DayNames[((day + 1) % 7) + 1]

\* date_obj.strftime('%A').lower()
DayName(day) == DayNames[(day % 7) + 1]

MinutesPerDay == 1440

YmdDate(day) == [kind |-> "ymd", day |-> day]

BadDate == [kind |-> "bad", day |-> 0]

NullDate == [kind |-> "null", day |-> 0]

HhmmTime(minute) == [kind |-> "hhmm", minute |-> minute]

AmpmTime(minute) == [kind |-> "ampm", minute |-> minute]

BadTime == [kind |-> "bad", minute |-> 0]

NullTime == [kind |-> "null", minute |-> 0]

\* the zones ZoneInfo knows, with the minutes their wall clock is ahead of the
\* process's zone
ZoneOffset == [z \in {"Asia/Kolkata", "UTC"} |->
                 IF z = "UTC" THEN -330 ELSE 0]

\* datetime.now(tz), or datetime.now() when the restaurant names no zone or
\* one ZoneInfo rejects (lines 46-55), as [day, minute, second]
NowIn(zone_name, now) ==
    IF zone_name \in DOMAIN ZoneOffset
    THEN LET total == now.day * MinutesPerDay + now.minute + ZoneOffset[zone_name]
         IN  [day |-> total \div MinutesPerDay,
              minute |-> total % MinutesPerDay,
              second |-> now.second]
    ELSE now

\* reservation_dt < now_tz (line 57): the reservation is at second 0
IsPast(day, minute, now_tz) ==
    \/ day < now_tz.day
    \/ day = now_tz.day /\ minute < now_tz.minute
    \/ day = now_tz.day /\ minute = now_tz.minute /\ 0 < now_tz.second

\* the closing time itself, with no hour taken off
LastReservationTimeNoCutoff(close) == close

\* (close_datetime - timedelta(hours=1)).time() (lines 69-70)
LastReservationTime(close) == (close + MinutesPerDay - 60) % MinutesPerDay

Valid == [ok |-> TRUE, reason |-> [kind |-> "none"]]

Invalid(reason) == [ok |-> FALSE, reason |-> reason]

\* lines 61-78
HoursCheck(day_hours, minute) ==
    IF minute < day_hours.open
    THEN Invalid([kind |-> "opens_at", open |-> day_hours.open])
    ELSE IF minute > LastReservationTime(day_hours.close)
    THEN Invalid([kind |-> "last_reservation",
                  last |-> LastReservationTime(day_hours.close),
                  close |-> day_hours.close])
    ELSE Valid

\* lines 17-82; now is the process's clock
validate_reservation_time(restaurant, reservation_date, reservation_time, now) ==
    IF reservation_date.kind # "ymd"
    THEN Invalid([kind |-> "error"])                      \* line 20 raises
    ELSE LET day_name == DayName(reservation_date.day)
             operating_hours == restaurant.operating_hours
         IN  IF day_name \notin DOMAIN operating_hours
             THEN Invalid([kind |-> "hours_not_available", day |-> day_name])
             ELSE IF operating_hours[day_name].is_closed
             THEN Invalid([kind |-> "closed", day |-> day_name])
             ELSE IF reservation_time.kind = "null"
             THEN Invalid([kind |-> "error"])             \* line 36 raises TypeError
             ELSE IF reservation_time.kind = "bad"
             THEN Invalid([kind |-> "invalid_time_format"])
             ELSE IF IsPast(reservation_date.day, reservation_time.minute,
                            NowIn(restaurant.timezone, now))
             THEN Invalid([kind |-> "already_passed"])
             ELSE HoursCheck(operating_hours[day_name], reservation_time.minute)

(***************************************************************************)
(* reservation_utils.generate_available_time_slots and                     *)
(* restaurant_hours_utils.is_restaurant_open                               *)
(***************************************************************************)
\* minutes between two slots (reservation_utils.py line 109)
SlotStep == 30

\* the slots from current_time while it is before last_slot_time
RECURSIVE SlotsFromBefore(_, _)
SlotsFromBefore(current_time, last_slot_time) ==
    IF current_time < last_slot_time
    THEN <<HhmmTime(current_time)>>
         \o SlotsFromBefore(current_time + SlotStep, last_slot_time)
    ELSE <<>>

\* lines 107-109: the slots from current_time while it is not after
\* last_slot_time; the datetimes are of one day, and last_slot_time is before
\* that day when close is earlier than 01:00
RECURSIVE SlotsFrom(_, _)
SlotsFrom(current_time, last_slot_time) ==
    IF current_time <= last_slot_time
    THEN <<HhmmTime(current_time)>>
         \o SlotsFrom(current_time + SlotStep, last_slot_time)
    ELSE <<>>

\* lines 84-115; a date that is no YYYY-MM-DD string raises inside the try
generate_available_time_slots(restaurant, reservation_date) ==
    IF reservation_date.kind # "ymd" THEN <<>>
    ELSE LET Slots(operating_hours, day_name) ==
                 IF day_name \notin DOMAIN operating_hours THEN <<>>
                 ELSE IF operating_hours[day_name].is_closed THEN <<>>
                 ELSE SlotsFrom(operating_hours[day_name].open,
                                operating_hours[day_name].close - 60)
         IN  Slots(restaurant.operating_hours, DayName(reservation_date.day))

\* restaurant_hours_utils.py line 9
DefaultZone == "Asia/Kolkata"

\* current_time <= t for the clock time of now and the minute t
AtOrBefore(now, t) ==
    \/ now.minute < t
    \/ now.minute = t /\ now.second = 0

\* restaurant_hours_utils.py lines 43-52: close_time; "00:00" is taken as 23:59
CloseTime(close) == IF close = 0 THEN 23 * 60 + 59 ELSE close

\* restaurant_hours_utils.py lines 55-60
IsOpenAt(now, open, close) ==
    IF close = 0 \/ CloseTime(close) < open
    THEN now.minute >= open \/ AtOrBefore(now, CloseTime(close))
    ELSE open <= now.minute /\ AtOrBefore(now, CloseTime(close))

\* restaurant_hours_utils.py lines 9-89, without the texts next_opening and
\* next_change; now is the process's clock
is_restaurant_open(operating_hours, timezone_str, now) ==
    IF timezone_str \notin DOMAIN ZoneOffset
    THEN [is_open |-> "none", status |-> "unknown"]
    ELSE LET Status(now_tz, current_day) ==
                 IF current_day \notin DOMAIN operating_hours
                 THEN [is_open |-> FALSE, status |-> "closed_today",
                       current_day |-> current_day]
                 ELSE IF operating_hours[current_day].is_closed
                 THEN [is_open |-> FALSE, status |-> "closed_today",
                       current_day |-> current_day]
                 ELSE IF IsOpenAt(now_tz, operating_hours[current_day].open,
                                  operating_hours[current_day].close)
                 THEN [is_open |-> TRUE, status |-> "open",
                       current_day |-> current_day]
                 ELSE [is_open |-> FALSE, status |-> "closed",
                       current_day |-> current_day]
             In(now_tz) == Status(now_tz, DayName(now_tz.day))
         IN  In(NowIn(timezone_str, now))

(***************************************************************************)
(* Dictionaries are functions from their keys; a key the dictionary lacks  *)
(* is outside the DOMAIN.  Messages are records naming the sentence and    *)
(* the values it is formatted from.                                        *)
(***************************************************************************)
\* {}
EmptyDict == [key \in {} |-> FALSE]

\* key in d
Has(d, key) == key \in DOMAIN d

\* d.get(key, default)
Get(d, key, default) == IF key \in DOMAIN d THEN d[key] ELSE default

\* d[key] = value
Set(d, key, value) == (key :> value) @@ d

(***************************************************************************)
(* GeminiService._fallback_processing                                      *)
(***************************************************************************)
\* any(word in command_lower for word in words)
AnyContained(words, command_lower) ==
    \E i \in DOMAIN words : Contains(words[i], command_lower)

\* lines 482-487
FallbackIntent(command_lower) ==
    IF AnyContained(<< <<"b","o","o","k">>, <<"r","e","s","e","r","v","e">>,
                       <<"t","a","b","l","e">>,
                       <<"r","e","s","e","r","v","a","t","i","o","n">> >>,
                    command_lower)
    THEN "reservation"
    ELSE IF AnyContained(<< <<"h","e","l","l","o">>, <<"h","i">>, <<"h","e","y">> >>,
                         command_lower)
    THEN "greeting"
    ELSE "other"

\* lines 490-501: the first restaurant whose lowercased name, or a word of
\* it, occurs in the command
RECURSIVE FallbackMatch(_, _, _)
FallbackMatch(command_lower, rs, i) ==
    IF i > Len(rs) THEN NoMatch
    ELSE LET name == lower(rs[i].name)
         IN  IF Contains(name, command_lower)
                \/ AnyContained(split(name), command_lower)
             THEN [found |-> TRUE, name |-> rs[i].name, confidence |-> 70,
                   restaurant_id |-> rs[i].id]
             ELSE FallbackMatch(command_lower, rs, i + 1)

\* line 508
FallbackAction(intent, restaurant_match) ==
    IF intent = "reservation" THEN "book_table" ELSE "provide_info"

_fallback_processing(command, rs) ==
    LET command_lower == lower(command)
        intent == FallbackIntent(command_lower)
        restaurant_match == FallbackMatch(command_lower, rs, 1)
    IN  [intent |-> intent,
         confidence |-> 60,
         restaurant_match |-> restaurant_match,
         response_message |-> [kind |-> "understood"],
         action_required |-> FallbackAction(intent, restaurant_match)]

(***************************************************************************)
(* GeminiService._validate_ai_response and _parse_ai_response              *)
(***************************************************************************)
\* a call that returned value, and a call that raised
Returned(value) == [raised |-> FALSE, value |-> value]

Raised == [raised |-> TRUE]

\* lines 293-296: the position of the first restaurant whose lowercased name
\* is the lowercased suggested name, 0 if none
RECURSIVE ExactNamePosition(_, _, _)
ExactNamePosition(suggested_name, rs, i) ==
    IF i > Len(rs) THEN 0
    ELSE IF lower(rs[i].name) = lower(suggested_name) THEN i
    ELSE ExactNamePosition(suggested_name, rs, i + 1)

\* lines 292-304 without the fuzzy matching of lines 301-304: the model's
\* match is kept when no restaurant has the suggested name
MatchSuggestedKept(restaurant_match, suggested_name, rs) ==
    LET At(i) ==
            IF i # 0 THEN Set(restaurant_match, "restaurant_id", rs[i].id)
            ELSE restaurant_match
    IN  At(ExactNamePosition(suggested_name, rs, 1))

\* lines 292-304
MatchSuggested(restaurant_match, suggested_name, rs) ==
    LET At(i) ==
            IF i # 0 THEN Set(restaurant_match, "restaurant_id", rs[i].id)
            ELSE _find_best_restaurant_match(suggested_name, rs)
    IN  At(ExactNamePosition(suggested_name, rs, 1))

\* line 310
stop_words ==
    { <<"r","e","s","t","a","u","r","a","n","t">>, <<"h","o","t","e","l">>,
      <<"t","h","e">>, <<"c","a","f","e">>, <<"f","o","o","d">>,
      <<"d","i","n","e","r">> }

\* line 311
RECURSIVE SigWords(_)
SigWords(words) ==
    IF words = <<>> THEN <<>>
    ELSE (IF words[1] \notin stop_words /\ Len(words[1]) > 2
          THEN <<words[1]>> ELSE <<>>) \o SigWords(Tail(words))

Max(a, b) == IF a >= b THEN a ELSE b

Min(a, b) == IF a <= b THEN a ELSE b

\* line 312: the suggested name has significant words and none of them
\* occurs in the normalized command
GuardFails(suggested_name, original_command) ==
    LET original_norm == _normalize_text(original_command)
        sig_words == SigWords(split(_normalize_text(suggested_name)))
    IN  /\ sig_words # <<>>
        /\ ~AnyContained(sig_words, original_norm)

\* lines 313-327 with the action of a preferred manual match set to
\* 'book_table' instead of the response's own
ApplyGuardBooks(response, suggested_name, original_command, rs) ==
    LET Decide(manual_match, manual_conf, ai_conf) ==
        IF manual_match.found /\ manual_conf >= Max(ai_conf, 70)
        THEN Set(Set(Set(response,
                 "restaurant_match", manual_match),
                 "response_message",
                     [kind |-> "found_from_command", name |-> manual_match.name]),
                 "action_required", "book_table")
        ELSE Set(Set(Set(response,
                 "restaurant_match",
                     Set(response["restaurant_match"], "confidence", Min(ai_conf, 50))),
                 "action_required", "ask_clarification"),
                 "response_message",
                     [kind |-> "confirm_name", name |-> suggested_name])
        Search(manual_match) ==
            Decide(manual_match, manual_match.confidence,
                   Get(response["restaurant_match"], "confidence", 0))
    IN  Search(_manual_restaurant_search(original_command, rs))

\* lines 313-327: the response after a failed guard
ApplyGuard(response, suggested_name, original_command, rs) ==
    LET Decide(manual_match, manual_conf, ai_conf) ==
        IF manual_match.found /\ manual_conf >= Max(ai_conf, 70)
        THEN Set(Set(Set(response,
                 "restaurant_match", manual_match),
                 "response_message",
                     [kind |-> "found_from_command", name |-> manual_match.name]),
                 "action_required", Get(response, "action_required", "book_table"))
        ELSE Set(Set(Set(response,
                 "restaurant_match",
                     Set(response["restaurant_match"], "confidence", Min(ai_conf, 50))),
                 "action_required", "ask_clarification"),
                 "response_message",
                     [kind |-> "confirm_name", name |-> suggested_name])
        Search(manual_match) ==
            Decide(manual_match, manual_match.confidence,
                   Get(response["restaurant_match"], "confidence", 0))
    IN  Search(_manual_restaurant_search(original_command, rs))

\* lines 289-330
ValidateMatch(response, rs, original_command) ==
    IF Get(Get(response, "restaurant_match", EmptyDict), "found", FALSE)
    THEN LET Guard(suggested_name, matched) ==
                 IF GuardFails(suggested_name, original_command)
                 THEN ApplyGuard(matched, suggested_name, original_command, rs)
                 ELSE matched
             Match(suggested_name) ==
                 Guard(suggested_name,
                       Set(response, "restaurant_match",
                           MatchSuggested(response["restaurant_match"],
                                          suggested_name, rs)))
         IN  Match(Get(response["restaurant_match"], "name", <<>>))
    ELSE response

\* lines 335-339
ValidDate(details, now) ==
    IF Has(details, "date") /\ details["date"].kind = "bad"
    THEN Set(details, "date", YmdDate(now.day))
    ELSE details

\* lines 341-345
DefaultTime == HhmmTime(19 * 60)

ValidTime(details) ==
    IF Has(details, "time") /\ details["time"].kind \in {"bad", "ampm"}
    THEN Set(details, "time", DefaultTime)
    ELSE details

\* lines 347-352: a guest count is [int, value], int telling whether the JSON
\* value is an integer
GuestInt(n) == [int |-> TRUE, value |-> n]

NonIntGuests == [int |-> FALSE, value |-> 0]

ValidGuests(details, original_command) ==
    IF Has(details, "guests") /\ details["guests"].int THEN details
    ELSE LET extracted == _extract_guest_count(original_command)
         IN  Set(details, "guests",
                 GuestInt(IF extracted # NoGuestCount THEN extracted ELSE 2))

\* the action that line 354 submits to the operating hours
ValidatedAction == "make_reservation"

\* lines 358-361
RECURSIVE RestaurantById(_, _, _)
RestaurantById(restaurant_id, rs, i) ==
    IF i > Len(rs) THEN 0
    ELSE IF rs[i].id = restaurant_id THEN i
    ELSE RestaurantById(restaurant_id, rs, i + 1)

\* lines 354-377
ValidateHours(response, details, rs, now) ==
    LET Position(restaurant_match) ==
            IF Has(restaurant_match, "restaurant_id")
            THEN RestaurantById(restaurant_match["restaurant_id"], rs, 1)
            ELSE 0
        Refuse(checked) ==
            IF ~checked.ok
            THEN Set(Set(Set(response,
                     "action_required", "ask_clarification"),
                     "response_message",
                         [kind |-> "not_available",
                          time |-> Get(details, "time", NullTime),
                          date |-> Get(details, "date", NullDate),
                          reason |-> checked.reason]),
                     "time_validation",
                         [is_valid |-> FALSE, error |-> checked.reason,
                          message |-> checked.reason])
            ELSE response
        Check(i) ==
            IF Get(response, "action_required", "") = ValidatedAction /\ i # 0
            THEN Refuse(validate_reservation_time(
                            rs[i],
                            Get(details, "date", YmdDate(now.day)),
                            Get(details, "time", DefaultTime),
                            now))
            ELSE response
    IN  Check(Position(Get(response, "restaurant_match", EmptyDict)))

\* lines 286-378; strptime raises TypeError on a date or time that is no string
_validate_ai_response(response, rs, original_command, now) ==
    LET Hours(matched, details) ==
            Returned(ValidateHours(Set(matched, "reservation_details", details),
                                   details, rs, now))
        Details(matched, details) ==
            IF \/ Has(details, "date") /\ details["date"].kind = "null"
               \/ Has(details, "time") /\ details["time"].kind = "null"
            THEN Raised
            ELSE Hours(matched, ValidGuests(ValidTime(ValidDate(details, now)),
                                            original_command))
        Rest(matched) ==
            IF ~Has(matched, "reservation_details") THEN Returned(matched)
            ELSE Details(matched, matched["reservation_details"])
    IN  Rest(ValidateMatch(response, rs, original_command))

\* lines 278-284
TroubleUnderstanding ==
    [intent |-> "reservation",
     confidence |-> 50,
     restaurant_match |-> NoMatch,
     response_message |-> [kind |-> "trouble_understanding"],
     action_required |-> "ask_clarification"]

\* lines 257-284: the model's text is [json |-> FALSE] when no span from its
\* first "{" to its last "}" parses, else [json |-> TRUE, value |-> the object]
_parse_ai_response(ai_response, rs, original_command, now) ==
    IF ~ai_response.json THEN Returned(TroubleUnderstanding)
    ELSE _validate_ai_response(ai_response.value, rs, original_command, now)

(***************************************************************************)
(* GeminiService.process_voice_command                                     *)
(***************************************************************************)
\* lines 80-86
ManualFallback(result, command, rs) ==
    LET Adopt(manual_match) ==
            IF /\ ~Get(Get(result, "restaurant_match", EmptyDict), "found", FALSE)
               /\ Get(result, "intent", "") = "reservation"
               /\ manual_match.found
            THEN Set(Set(Set(result,
                     "restaurant_match", manual_match),
                     "response_message",
                         [kind |-> "found_restaurant", name |-> manual_match.name]),
                     "action_required", "book_table")
            ELSE result
    IN  Adopt(_manual_restaurant_search(command, rs))

\* lines 59-92 when the model raises, without the handler of line 90
OnModelErrorPropagates(command, rs) == Raised

\* lines 59-92 when the model raises: the handler of line 90
OnModelError(command, rs) == Returned(_fallback_processing(command, rs))

\* lines 59-92 when the model returns ai_response
OnModelText(ai_response, command, rs, now) ==
    LET Finish(parsed) ==
            IF parsed.raised THEN Returned(_fallback_processing(command, rs))
            ELSE Returned(ManualFallback(parsed.value, command, rs))
    IN  Finish(_parse_ai_response(ai_response, rs, command, now))

\* lines 56-57
OnDisabled(command, rs) == Returned(_fallback_processing(command, rs))

(***************************************************************************)
(* The inputs: words, texts made of them, and the restaurant catalogue.    *)
(***************************************************************************)
W_book == <<"b","o","o","k">>

W_at == <<"a","t">>

W_hi == <<"h","i">>

W_taj == <<"t","a","j">>

W_sai == <<"s","a","i">>

W_nagasai == <<"n","a","g","a","s","a","i">>

W_hotel == <<"h","o","t","e","l">>

\* the word with its first letter in upper case
Capitalize(w) ==
    [i \in 1..Len(w) |->
        IF i = 1 /\ w[i] \in AlphaSet
        THEN Upper[CHOOSE k \in DOMAIN Alpha : Alpha[k] = w[i]]
        ELSE w[i]]

\* the words joined by sep
RECURSIVE JoinWith(_, _)
JoinWith(words, sep) ==
    IF words = <<>> THEN <<>>
    ELSE IF Len(words) = 1 THEN words[1]
    ELSE words[1] \o sep \o JoinWith(Tail(words), sep)

\* every text of 1 to n words of vocab, the words separated by a space or by
\* a comma and a space, in lower case or capitalized
TextsOver(vocab, n) ==
    UNION {
      { JoinWith([i \in 1..k |-> IF cap THEN Capitalize(vocab[ws[i]])
                                 ELSE vocab[ws[i]]], sep) :
          ws \in [1..k -> DOMAIN vocab] }
      : k \in 1..n, sep \in {<<" ">>, <<",", " ">>}, cap \in BOOLEAN }

MaxSearchWords == 2

SearchVocab == <<W_sai, W_nagasai, W_taj, W_hotel, W_at, W_book>>

\* the empty text and the texts of up to MaxSearchWords words
SearchTexts == {<<>>} \cup TextsOver(SearchVocab, MaxSearchWords)

\* the week's schedule with the same hours every day
Daily(open, close) ==
    [d \in {DayNames[i] : i \in DOMAIN DayNames} |->
        [open |-> open, close |-> close, is_closed |-> FALSE]]

\* the restaurants of the store; the route hands the active ones to the
\* resolver, without their timezone (src/backend/main.py lines 208-222)
Catalogue ==
    << [id |-> 1, is_active |-> TRUE,
        name |-> <<"H","o","t","e","l"," ","N","a","g","a","s","a","i">>,
        operating_hours |-> Daily(17 * 60, 23 * 60), timezone |-> ""],
       [id |-> 2, is_active |-> FALSE,
        name |-> <<"N","a","g","a","s","a","i">>,
        operating_hours |-> Daily(17 * 60, 0), timezone |-> ""],
       [id |-> 3, is_active |-> TRUE,
        name |-> <<"H","o","t","e","l"," ","T","a","j">>,
        operating_hours |->
            [Daily(10 * 60, 22 * 60) EXCEPT
                !["monday"] = [open |-> 0, close |-> 0, is_closed |-> TRUE]],
        timezone |-> ""],
       [id |-> 4, is_active |-> TRUE,
        name |-> <<"T","h","e"," ","C","a","f","e">>,
        operating_hours |-> EmptyDict, timezone |-> ""],
       [id |-> 5, is_active |-> FALSE,
        name |-> <<"n","a","g","a","s","a","i","!">>,
        operating_hours |-> Daily(17 * 60, 23 * 60), timezone |-> ""] >>

MaxRestaurants == 2

\* the lists of up to MaxRestaurants distinct restaurants, in any order, taken
\* at the given positions of the catalogue
ListsOf(positions) ==
    UNION { { [i \in 1..k |-> Catalogue[ix[i]]] :
                ix \in {f \in [1..k -> positions] :
                          \A a, b \in 1..k : a # b => f[a] # f[b]} }
            : k \in 0..MaxRestaurants }

\* the candidate lists of the matcher
RestaurantLists == ListsOf(DOMAIN Catalogue)

\* the candidate lists the route passes to process_voice_command: active
\* restaurants sorted by name (src/backend/main.py lines 210-213); the
\* catalogue holds the active restaurants in the order of their names
ActiveLists ==
    {l \in ListsOf({c \in DOMAIN Catalogue : Catalogue[c].is_active}) :
        \A a, b \in DOMAIN l : a < b => l[a].id < l[b].id}

MaxCommandWords == 2

CommandVocab == <<W_book, W_hi, W_taj, W_nagasai>>

\* the commands: 1 to MaxCommandWords words separated by spaces
Commands ==
    UNION { { JoinWith([i \in 1..k |-> CommandVocab[ws[i]]], <<" ">>) :
                ws \in [1..k -> DOMAIN CommandVocab] }
            : k \in 1..MaxCommandWords }

\* the clock of the requests: noon of day 7, a Monday
Noon == [day |-> 7, minute |-> 12 * 60, second |-> 30]

Today == Noon.day

\* the names the model suggests: two names of the list, a part of one, and a
\* name of no restaurant
SuggestedNames ==
    { <<"H","o","t","e","l"," ","T","a","j">>, <<"T","a","j">>,
      <<"T","h","e"," ","C","a","f","e">>, <<"S","a","i">> }

\* restaurant_match of the model's JSON object: no match, each suggested name
\* with a confidence, and one name without
ModelMatches ==
    {NoMatch}
    \cup {[found |-> TRUE, name |-> n, confidence |-> 95] : n \in SuggestedNames}
    \cup {[found |-> TRUE, name |-> <<"H","o","t","e","l"," ","T","a","j">>]}

\* reservation_details of the model's JSON object, when it has one
ModelDetails ==
    { [guests |-> GuestInt(4), date |-> YmdDate(Today), time |-> HhmmTime(19 * 60)],
      [guests |-> GuestInt(4), date |-> YmdDate(Today + 1),
       time |-> HhmmTime(19 * 60)],
      [guests |-> GuestInt(25), date |-> YmdDate(Today + 1),
       time |-> HhmmTime(23 * 60 + 30)],
      [guests |-> NonIntGuests, date |-> BadDate, time |-> BadTime],
      [guests |-> GuestInt(4), date |-> YmdDate(Today + 1), time |-> NullTime],
      [date |-> YmdDate(Today + 1)] }

ModelActions == {"book_table", "ask_clarification", "make_reservation"}

\* the JSON objects of the model: every object has the keys of the prompt
\* (lines 135-157) except, for some, reservation_details; the objects of a
\* greeting have none
ModelObjects ==
    { [intent |-> i, confidence |-> 90, restaurant_match |-> m,
       time_validation |-> [is_valid |-> TRUE, message |-> [kind |-> "none"]],
       response_message |-> [kind |-> "model"], action_required |-> a]
        : i \in {"reservation", "greeting"}, m \in ModelMatches, a \in ModelActions }
    \cup
    { [intent |-> "reservation", confidence |-> 90, restaurant_match |-> m,
       reservation_details |-> d,
       time_validation |-> [is_valid |-> TRUE, message |-> [kind |-> "none"]],
       response_message |-> [kind |-> "model"], action_required |-> a]
        : m \in ModelMatches, d \in ModelDetails, a \in ModelActions }

NoJson == [json |-> FALSE]

\* the texts the model returns
ModelTexts == {NoJson} \cup {[json |-> TRUE, value |-> o] : o \in ModelObjects}

(***************************************************************************)
(* The matcher on its own: a search text and a candidate list are drawn,   *)
(* and one of the two entry points is applied.                             *)
(***************************************************************************)
\* no operating-hours call
NoHours ==
    /\ schedule = [operating_hours |-> EmptyDict, timezone |-> ""]
    /\ booking = [date |-> NullDate, time |-> NullTime]
    /\ hcall = "none"
    /\ hresult = <<>>

\* no concurrent calls, no HTTP requests, empty collections
NoWeb ==
    /\ calls = <<>>
    /\ posts = <<>>
    /\ users = <<>>
    /\ reservations = <<>>

\* no text routine call
NoText ==
    /\ phrase = <<>>
    /\ tcall = "none"
    /\ tresult = <<>>

NoRequest ==
    /\ request = <<>>
    /\ enabled = FALSE
    /\ clock = Noon
    /\ outcome = "none"
    /\ model_text = NoJson
    /\ returned = Raised
    /\ pc = "ready"

MatchInit ==
    /\ search \in SearchTexts
    /\ restaurants \in RestaurantLists
    /\ match = NoMatch
    /\ mcall = "none"
    /\ NoRequest
    /\ NoHours
    /\ NoText
    /\ NoWeb

FindBest ==
    /\ mcall = "none"
    /\ match' = _find_best_restaurant_match(search, restaurants)
    /\ mcall' = "find_best"
    /\ UNCHANGED <<search, restaurants>>
    /\ UNCHANGED <<request, enabled, clock, outcome, model_text, returned, pc>>
    /\ UNCHANGED <<hours_vars, text_vars, web_vars>>

ManualSearch ==
    /\ mcall = "none"
    /\ match' = _manual_restaurant_search(search, restaurants)
    /\ mcall' = "manual"
    /\ UNCHANGED <<search, restaurants>>
    /\ UNCHANGED <<request, enabled, clock, outcome, model_text, returned, pc>>
    /\ UNCHANGED <<hours_vars, text_vars, web_vars>>

MatchNext == FindBest \/ ManualSearch

SpecMatch == MatchInit /\ [][MatchNext]_vars

(***************************************************************************)
(* The matcher on long candidate lists: four or five restaurants, in the   *)
(* order of the catalogue or in the reverse order.                         *)
(***************************************************************************)
\* the catalogue without the restaurant at position p
CatalogueWithout(p) ==
    [i \in 1..(Len(Catalogue) - 1) |-> Catalogue[IF i < p THEN i ELSE i + 1]]

\* seq[::-1]
Reverse(seq) == [i \in 1..Len(seq) |-> seq[Len(seq) + 1 - i]]

LongLists ==
    LET Both(lists) == lists \cup {Reverse(l) : l \in lists}
    IN  Both({Catalogue} \cup {CatalogueWithout(p) : p \in DOMAIN Catalogue})

LongInit ==
    /\ search \in SearchTexts
    /\ restaurants \in LongLists
    /\ match = NoMatch
    /\ mcall = "none"
    /\ NoRequest
    /\ NoHours
    /\ NoText
    /\ NoWeb

LongNext == FindBest

SpecLong == LongInit /\ [][LongNext]_vars

(***************************************************************************)
(* The manual search on commands with the cue words 'at', 'book' and       *)
(* 'reserve'.                                                              *)
(***************************************************************************)
W_reserve == <<"r","e","s","e","r","v","e">>

ManualVocab == <<W_at, W_book, W_reserve, W_taj, W_nagasai>>

MaxManualWords == 3

\* the commands: the texts over the vocabulary and four longer commands
ManualCommands ==
    TextsOver(ManualVocab, MaxManualWords)
    \cup { <<"b","o","o","k"," ","t","a","j"," ","a","t"," ","n","a","g","a","s","a","i">>,
           <<"a","t"," ","t","a","j",","," ","b","o","o","k"," ","n","a","g","a","s","a","i">>,
           <<"r","e","s","e","r","v","e"," ","h","o","t","e","l"," ","t","a","j"," ","a","t"," ","s","a","i">>,
           <<"B","o","o","k"," ","a"," ","t","a","b","l","e"," ","a","t"," ","H","o","t","e","l"," ","T","a","j",","," ","f","o","r"," ","t","w","o">> }

\* the candidate lists: none, pairs in both orders, and the whole catalogue
ManualLists ==
    { <<>>, <<Catalogue[2], Catalogue[3]>>, <<Catalogue[3], Catalogue[2]>>,
      <<Catalogue[1], Catalogue[3]>>, Catalogue }

ManualInit ==
    /\ search \in ManualCommands
    /\ restaurants \in ManualLists
    /\ match = NoMatch
    /\ mcall = "none"
    /\ NoRequest
    /\ NoHours
    /\ NoText
    /\ NoWeb

ManualNext == ManualSearch

SpecManual == ManualInit /\ [][ManualNext]_vars

(***************************************************************************)
(* The operating-hours routines on their own: a restaurant schedule, a     *)
(* requested date and time and a clock are drawn, and one routine is       *)
(* applied.                                                                *)
(***************************************************************************)
\* open and close of a day: evening hours, closing at midnight, closing after
\* midnight, day hours, closing half an hour after midnight, a half-hour
\* day, and a close off the half hour
HoursChoices ==
    { <<17 * 60, 23 * 60>>, <<17 * 60, 0>>, <<17 * 60, 2 * 60>>,
      <<10 * 60, 22 * 60>>, <<17 * 60, 30>>, <<22 * 60 + 30, 23 * 60>>,
      <<10 * 60, 22 * 60 + 15>> }

\* a week with the same hours every day, but closed on Tuesdays and with no
\* entry for Wednesdays
WeekOf(open, close) ==
    [d \in {DayNames[i] : i \in DOMAIN DayNames} \ {"wednesday"} |->
        [open |-> open, close |-> close, is_closed |-> d = "tuesday"]]

Schedules ==
    { [operating_hours |-> WeekOf(h[1], h[2]), timezone |-> z] :
        h \in HoursChoices, z \in {"", "UTC", "Asia/Kolkata"} }

\* the requested dates: today (a Monday), a Tuesday, a Wednesday, a Thursday
\* to come, a Thursday gone, and a text that is no date
BookingDates ==
    { YmdDate(Today), YmdDate(Today + 1), YmdDate(Today + 2), YmdDate(Today + 3),
      YmdDate(Today - 4), BadDate }

\* the requested times
BookingMinutes ==
    { 30, 6 * 60 + 30, 9 * 60 + 59, 10 * 60, 11 * 60 + 59, 12 * 60, 12 * 60 + 1,
      16 * 60 + 59, 17 * 60, 17 * 60 + 30, 21 * 60, 21 * 60 + 1, 22 * 60,
      22 * 60 + 1, 22 * 60 + 30, 23 * 60, 23 * 60 + 1, 23 * 60 + 30 }

BookingTimes ==
    {HhmmTime(m) : m \in BookingMinutes}
    \cup {AmpmTime(19 * 60), BadTime, NullTime}

\* the clocks: instants of the Monday, on the minute and within it
Clocks ==
    { [day |-> Today, minute |-> m, second |-> sec] :
        m \in {30, 2 * 60, 12 * 60, 17 * 60, 23 * 60 + 30}, sec \in {0, 30} }

HoursInit ==
    /\ schedule \in Schedules
    /\ booking \in [date : BookingDates, time : BookingTimes]
    /\ clock \in Clocks
    /\ hcall = "none"
    /\ hresult = <<>>
    /\ search = <<>>
    /\ restaurants = <<>>
    /\ match = NoMatch
    /\ mcall = "none"
    /\ request = <<>>
    /\ enabled = FALSE
    /\ outcome = "none"
    /\ model_text = NoJson
    /\ returned = Raised
    /\ pc = "ready"
    /\ NoText
    /\ NoWeb

\* what the operating-hours actions leave alone
HoursFrame ==
    UNCHANGED <<search, restaurants, match, mcall, request, enabled, clock,
                outcome, model_text, returned, pc, schedule, booking,
                text_vars, web_vars>>

ValidateTime ==
    /\ hcall = "none"
    /\ hresult' = validate_reservation_time(schedule, booking.date,
                                            booking.time, clock)
    /\ hcall' = "validate"
    /\ HoursFrame

GenerateSlots ==
    /\ hcall = "none"
    /\ hresult' = generate_available_time_slots(schedule, booking.date)
    /\ hcall' = "slots"
    /\ HoursFrame

CheckOpen ==
    /\ hcall = "none"
    /\ hresult' = is_restaurant_open(
                      schedule.operating_hours,
                      IF schedule.timezone = "" THEN DefaultZone
                      ELSE schedule.timezone,
                      clock)
    /\ hcall' = "is_open"
    /\ HoursFrame

HoursNext == ValidateTime \/ GenerateSlots \/ CheckOpen

SpecHours == HoursInit /\ [][HoursNext]_vars

(***************************************************************************)
(* The text routines on their own: a text is drawn, and _normalize_text or *)
(* _extract_guest_count is applied to it.                                  *)
(***************************************************************************)
\* the pieces the texts are made of: counts of adults and children, the
\* general patterns, number words, a bare number, and pieces with
\* punctuation, a leading space and an underscore
PhraseVocab ==
    << <<"0"," ","a","d","u","l","t","s">>,
       <<"2"," ","a","d","u","l","t","s">>,
       <<"1","9"," ","a","d","u","l","t","s">>,
       <<"3"," ","k","i","d","s">>,
       <<"1"," ","c","h","i","l","d">>,
       <<"p","a","r","t","y"," ","o","f"," ","5">>,
       <<"p","a","r","t","y"," ","o","f"," ","0">>,
       <<"f","o","r"," ","5">>,
       <<"f","o","r"," ","2","5">>,
       <<"2","5"," ","p","e","o","p","l","e">>,
       <<"t","w","o">>,
       <<"z","e","r","o">>,
       <<"t","w","e","n","t","y",",">>,
       <<"4">>,
       <<" ","t","a","b","l","e","!">>,
       <<"_","a","-","b">> >>

MaxPhraseWords == 2

\* the texts, the empty one included
PhraseTexts == {<<>>} \cup TextsOver(PhraseVocab, MaxPhraseWords)

TextInit ==
    /\ phrase \in PhraseTexts
    /\ tcall = "none"
    /\ tresult = <<>>
    /\ search = <<>>
    /\ restaurants = <<>>
    /\ match = NoMatch
    /\ mcall = "none"
    /\ request = <<>>
    /\ enabled = FALSE
    /\ clock = Noon
    /\ outcome = "none"
    /\ model_text = NoJson
    /\ returned = Raised
    /\ pc = "ready"
    /\ NoHours
    /\ NoWeb

\* what the text actions leave alone
TextFrame ==
    UNCHANGED <<search, restaurants, match, mcall, request, enabled, clock,
                outcome, model_text, returned, pc, hours_vars, phrase,
                web_vars>>

Normalize ==
    /\ tcall = "none"
    /\ tresult' = _normalize_text(phrase)
    /\ tcall' = "normalize"
    /\ TextFrame

ExtractGuests ==
    /\ tcall = "none"
    /\ tresult' = _extract_guest_count(phrase)
    /\ tcall' = "guest_count"
    /\ TextFrame

TextNext == Normalize \/ ExtractGuests

SpecText == TextInit /\ [][TextNext]_vars

(***************************************************************************)
(* One resolution request: process_voice_command on a command and a        *)
(* candidate list, with the model disabled, raising, or returning a text.  *)
(***************************************************************************)
Init ==
    /\ request \in Commands
    /\ restaurants \in ActiveLists
    /\ enabled \in BOOLEAN
    /\ clock = Noon
    /\ outcome = "none"
    /\ model_text = NoJson
    /\ returned = Raised
    /\ pc = "ready"
    /\ search = <<>>
    /\ match = NoMatch
    /\ mcall = "none"
    /\ NoHours
    /\ NoText
    /\ NoWeb

\* lines 56-57
ProcessDisabled ==
    /\ pc = "ready"
    /\ ~enabled
    /\ outcome' = "disabled"
    /\ returned' = OnDisabled(request, restaurants)
    /\ pc' = "done"
    /\ UNCHANGED <<search, restaurants, match, mcall, request, enabled, clock,
                   model_text>>
    /\ UNCHANGED <<hours_vars, text_vars, web_vars>>

\* lines 59-92, generate_content or response.text raising
ProcessModelRaises ==
    /\ pc = "ready"
    /\ enabled
    /\ outcome' = "raised"
    /\ returned' = OnModelError(request, restaurants)
    /\ pc' = "done"
    /\ UNCHANGED <<search, restaurants, match, mcall, request, enabled, clock,
                   model_text>>
    /\ UNCHANGED <<hours_vars, text_vars, web_vars>>

\* lines 59-92, the model returning a text
ProcessModelReturns ==
    /\ pc = "ready"
    /\ enabled
    /\ \E text \in ModelTexts :
          /\ model_text' = text
          /\ returned' = OnModelText(text, request, restaurants, clock)
    /\ outcome' = "text"
    /\ pc' = "done"
    /\ UNCHANGED <<search, restaurants, match, mcall, request, enabled, clock>>
    /\ UNCHANGED <<hours_vars, text_vars, web_vars>>

Next == ProcessDisabled \/ ProcessModelRaises \/ ProcessModelReturns

Spec == Init /\ [][Next]_vars

(***************************************************************************)
(* The fallback of process_voice_command on commands that name one         *)
(* restaurant, with candidate lists of restaurants whose names share words *)
(* or letters with the command.                                            *)
(***************************************************************************)
\* restaurants of the store, in the order of their names
Diners ==
    << [id |-> 11, is_active |-> TRUE,
        name |-> <<"A"," ","T","a","v","o","l","a">>,
        operating_hours |-> Daily(17 * 60, 23 * 60), timezone |-> ""],
       [id |-> 12, is_active |-> TRUE,
        name |-> <<"G","o","l","d","e","n"," ","D","r","a","g","o","n">>,
        operating_hours |-> Daily(17 * 60, 23 * 60), timezone |-> ""],
       [id |-> 13, is_active |-> TRUE,
        name |-> <<"N","i","g","h","t"," ","O","w","l">>,
        operating_hours |-> Daily(17 * 60, 23 * 60), timezone |-> ""],
       [id |-> 14, is_active |-> TRUE,
        name |-> <<"S","p","i","c","e"," ","R","o","u","t","e">>,
        operating_hours |-> Daily(17 * 60, 23 * 60), timezone |-> ""],
       [id |-> 15, is_active |-> TRUE,
        name |-> <<"T","h","e"," ","G","o","l","d","e","n"," ","S","p","o","o","n">>,
        operating_hours |-> Daily(17 * 60, 23 * 60), timezone |-> ""] >>

\* the restaurants at the given positions of Diners, in the order of their
\* names (src/backend/main.py lines 210-213)
RECURSIVE DinersAt(_)
DinersAt(positions) ==
    IF positions = {} THEN <<>>
    ELSE LET First(p) == <<Diners[p]>> \o DinersAt(positions \ {p})
         IN  First(CHOOSE p \in positions : \A q \in positions : p <= q)

DinerLists == {DinersAt(positions) : positions \in SUBSET DOMAIN Diners}

\* commands that name The Golden Spoon
DinerCommands ==
    { <<"b","o","o","k"," ","a"," ","t","a","b","l","e"," ","f","o","r"," ","4"," ","t","o","n","i","g","h","t"," ","a","t"," ","G","o","l","d","e","n"," ","S","p","o","o","n">>,
      <<"r","e","s","e","r","v","e"," ","G","o","l","d","e","n"," ","S","p","o","o","n">>,
      <<"B","o","o","k"," ","t","h","e"," ","g","o","l","d","e","n"," ","s","p","o","o","n"," ","f","o","r"," ","t","w","o">>,
      <<"g","o","l","d","e","n"," ","s","p","o","o","n"," ","p","l","e","a","s","e">> }

FallbackInit ==
    /\ request \in DinerCommands
    /\ restaurants \in DinerLists
    /\ enabled \in BOOLEAN
    /\ clock = Noon
    /\ outcome = "none"
    /\ model_text = NoJson
    /\ returned = Raised
    /\ pc = "ready"
    /\ search = <<>>
    /\ match = NoMatch
    /\ mcall = "none"
    /\ NoHours
    /\ NoText
    /\ NoWeb

FallbackNext == ProcessDisabled \/ ProcessModelRaises

SpecFallback == FallbackInit /\ [][FallbackNext]_vars

(***************************************************************************)
(* Claims about process_voice_command, checked under Spec.                 *)
(***************************************************************************)
\* the intent a finished request returned
Intent == returned.value

\* the request is finished and returned an intent
Done == pc = "done" /\ ~returned.raised

RestaurantMatch(intent) == Get(intent, "restaurant_match", EmptyDict)

ReservationDetails(intent) == Get(intent, "reservation_details", EmptyDict)

Found(intent) == Get(RestaurantMatch(intent), "found", FALSE)

\* the intent carries a clock time
TimePresent(intent) ==
    /\ Has(ReservationDetails(intent), "time")
    /\ ReservationDetails(intent)["time"].kind = "hhmm"

\* the position in the candidate list of the intent's restaurant, 0 if none
MatchedPosition(intent) ==
    IF Has(RestaurantMatch(intent), "restaurant_id")
    THEN RestaurantById(RestaurantMatch(intent)["restaurant_id"], restaurants, 1)
    ELSE 0

\* validate_reservation_time accepts the intent's date and time at its
\* restaurant
TimeValidated(intent) ==
    /\ MatchedPosition(intent) # 0
    /\ TimePresent(intent)
    /\ validate_reservation_time(
           restaurants[MatchedPosition(intent)],
           Get(ReservationDetails(intent), "date", YmdDate(clock.day)),
           ReservationDetails(intent)["time"],
           clock).ok

\* C1: the returned intent has action_required = 'book_table' only if its
\* restaurant match is found, it carries a reservation time, and
\* validate_reservation_time succeeds for that restaurant, date and time.
C1_BookTableGated ==
    (Done /\ Get(Intent, "action_required", "") = "book_table") =>
        /\ Found(Intent)
        /\ TimePresent(Intent)
        /\ TimeValidated(Intent)

\* C2: with the model disabled or raising, process_voice_command raises
\* nothing and returns the result of _fallback_processing for the same
\* command and candidate list.
C2_FallbackOnFailure ==
    (pc = "done" /\ outcome \in {"disabled", "raised"}) =>
        /\ ~returned.raised
        /\ returned.value = _fallback_processing(request, restaurants)

\* the model raised and the fallback found a restaurant for a booking command
C2_Witness ==
    /\ pc = "done"
    /\ outcome = "raised"
    /\ ~returned.raised
    /\ Intent.restaurant_match.found
    /\ Intent.intent = "reservation"
    /\ Intent.confidence = 60

\* C3: when the model's text holds no JSON, process_voice_command returns the
\* 'trouble understanding' intent, with restaurant_match.found = false and
\* action_required = 'ask_clarification'.
C3_TroubleOnNoJson ==
    (Done /\ outcome = "text" /\ ~model_text.json) =>
        /\ Intent = TroubleUnderstanding
        /\ ~Found(Intent)
        /\ Intent.action_required = "ask_clarification"

\* the model's object names a restaurant of the list by its exact name, with
\* a date and a time that validate_reservation_time refuses for it
RefusedByHours(object) ==
    /\ Get(RestaurantMatch(object), "found", FALSE)
    /\ Has(RestaurantMatch(object), "name")
    /\ ExactNamePosition(RestaurantMatch(object)["name"], restaurants, 1) # 0
    /\ Has(ReservationDetails(object), "date")
    /\ ReservationDetails(object)["date"].kind = "ymd"
    /\ TimePresent(object)
    /\ ~validate_reservation_time(
           restaurants[ExactNamePosition(RestaurantMatch(object)["name"],
                                         restaurants, 1)],
           ReservationDetails(object)["date"],
           ReservationDetails(object)["time"],
           clock).ok

\* C4: when the model's object declares 'book_table' for a restaurant of the
\* list and validate_reservation_time fails for it with the object's date and
\* time, the returned intent has action_required = 'ask_clarification',
\* time_validation.is_valid = false and the message of the refusal.
C4_HoursFailureFlipsAction ==
    (/\ Done /\ outcome = "text" /\ model_text.json
     /\ model_text.value.action_required = "book_table"
     /\ RefusedByHours(model_text.value)) =>
        /\ Intent.action_required = "ask_clarification"
        /\ Has(Intent, "time_validation")
        /\ ~Intent.time_validation.is_valid
        /\ Intent.response_message.kind = "not_available"

\* a significant word of the suggested name occurs in the normalized command
SignificantWordInCommand(suggested_name) ==
    AnyContained(SigWords(split(_normalize_text(suggested_name))),
                 _normalize_text(request))

\* the confidence of the model's match after the cross-check of lines 292-304
ModelPathConfidence(restaurant_match) ==
    Get(MatchSuggested(restaurant_match,
                       Get(restaurant_match, "name", <<>>), restaurants),
        "confidence", 0)

\* the manual pattern matcher finds a restaurant in the command with a
\* confidence of at least max(confidence, 0.7)
ManualAtLeast(confidence) ==
    /\ _manual_restaurant_search(request, restaurants).found
    /\ _manual_restaurant_search(request, restaurants).confidence
          >= Max(confidence, 70)

\* C5: when the model claims a restaurant match, then unless a significant
\* word of the suggested name occurs in the normalized command, or the manual
\* matcher finds a match of confidence >= max(model-path confidence, 0.7),
\* the returned intent has restaurant_match.confidence <= 0.5 and
\* action_required = 'ask_clarification'.
C5_HallucinationGuard ==
    (/\ Done /\ outcome = "text" /\ model_text.json
     /\ Found(model_text.value)
     /\ ~SignificantWordInCommand(
            Get(RestaurantMatch(model_text.value), "name", <<>>))
     /\ ~ManualAtLeast(ModelPathConfidence(RestaurantMatch(model_text.value)))) =>
        /\ Get(RestaurantMatch(Intent), "confidence", 0) <= 50
        /\ Intent.action_required = "ask_clarification"

\* the fields of a ReservationIntent
IntentFields ==
    {"intent", "confidence", "restaurant_match", "reservation_details",
     "time_validation", "response_message", "action_required"}

\* C6: every intent process_voice_command returns has the seven fields
\* intent, confidence, restaurant_match, reservation_details,
\* time_validation, response_message and action_required.
C6_SevenFields ==
    pc = "done" => (~returned.raised /\ IntentFields \subseteq DOMAIN Intent)

\* C7: _fallback_processing returns action_required = 'book_table' if it
\* found a restaurant and 'provide_info' if it found none.
C7_FallbackActionByMatch ==
    (pc = "done" /\ outcome \in {"disabled", "raised"}) =>
        Intent.action_required =
            (IF Intent.restaurant_match.found THEN "book_table"
             ELSE "provide_info")


(***************************************************************************)
(* Claims about the fuzzy matcher, checked under SpecMatch.                *)
(***************************************************************************)
\* the words of the normalized text
NormWords(text) == split(_normalize_text(text))

\* the positions of the candidates whose normalized name is the normalized
\* search text
ExactPositions ==
    {i \in DOMAIN restaurants :
        _normalize_text(restaurants[i].name) = _normalize_text(search)}

\* the least element of a non-empty set of positions
Least(S) == CHOOSE i \in S : \A k \in S : i <= k

\* C8: a returned of _find_best_restaurant_match or _manual_restaurant_search
\* with found = true has a confidence strictly greater than 0.55.
C8_FoundAboveFloor ==
    (mcall # "none" /\ match.found) => match.confidence > 55

C8_Witness ==
    /\ mcall = "manual"
    /\ match.found
    /\ match.confidence = 70
    /\ Len(restaurants) = 2

\* C9: _find_best_restaurant_match returns a restaurant as found only if the
\* normalized search text equals its normalized name or a search word longer
\* than 2 characters is a whole word of its normalized name; 'sai' does not
\* match 'Nagasai' and 'nagasai' matches it with confidence 1.0.
C9_WordBoundarySafe ==
    mcall = "find_best" =>
      /\ match.found =>
            \E i \in DOMAIN restaurants :
              /\ restaurants[i].id = match.restaurant_id
              /\ \/ _normalize_text(restaurants[i].name) = _normalize_text(search)
                 \/ \E w \in Range(NormWords(search)) :
                       /\ Len(w) > 2
                       /\ w \in Range(NormWords(restaurants[i].name))
      /\ (search = W_sai /\ restaurants = <<Catalogue[2]>>) => ~match.found
      /\ (search = W_nagasai /\ restaurants = <<Catalogue[2]>>) =>
            (match.found /\ match.confidence = 100 /\ match.restaurant_id = 2)

\* 'Sai, Taj' against Nagasai and Hotel Taj: 'sai' lies inside 'nagasai' only,
\* and the match is Hotel Taj by its whole word
C9_Witness ==
    /\ mcall = "find_best"
    /\ NormWords(search) = <<W_sai, W_taj>>
    /\ restaurants = <<Catalogue[2], Catalogue[3]>>
    /\ match.found
    /\ match.restaurant_id = 3

\* C10: when the normalized search text equals the normalized name of some
\* candidate, _find_best_restaurant_match returns the first such candidate
\* with confidence 1.0 whatever the others score, and it returns confidence
\* 1.0 in no other case.
C10_ExactMatchFirst ==
    mcall = "find_best" =>
      IF search # <<>> /\ ExactPositions # {}
      THEN /\ match.found
           /\ match.confidence = 100
           /\ match.restaurant_id = restaurants[Least(ExactPositions)].id
           /\ match.name = restaurants[Least(ExactPositions)].name
      ELSE match.confidence # 100

\* two candidates share the normalized name and the first of them is returned
C10_Witness ==
    /\ mcall = "find_best"
    /\ ExactPositions = {1, 2}
    /\ match.confidence = 100
    /\ match.restaurant_id = restaurants[1].id

(***************************************************************************)
(* Claims on the operating-hours routines (SpecHours).                     *)
(***************************************************************************)
\* the entry of the schedule for the weekday of the requested date
RequestDay == DayNames[(booking.date.day % 7) + 1]

HasEntry == booking.date.kind = "ymd" /\ RequestDay \in DOMAIN schedule.operating_hours

DayHours == schedule.operating_hours[RequestDay]

OpenDay == HasEntry /\ ~DayHours.is_closed

TimeParses == booking.time.kind \in {"hhmm", "ampm"}

\* the current instant in the zone the request is read in
ZoneNow == NowIn(schedule.timezone, clock)

\* the requested instant (second 0 of its minute) is strictly after now
StrictlyFuture ==
    \/ booking.date.day > ZoneNow.day
    \/ booking.date.day = ZoneNow.day /\ booking.time.minute > ZoneNow.minute

\* the clock time one hour before t
HourBefore(t) == IF t >= 60 THEN t - 60 ELSE t + MinutesPerDay - 60

\* C11: for a non-closed day with parseable hours and a request instant in the
\* future, validate_reservation_time accepts exactly the times t with
\* open <= t <= close - 1 hour (the clock time one hour before close); a time
\* before open is rejected with the 'opens at' reason, and a time not before
\* open but after close - 1 hour with the 'last reservation' reason.
C11_AcceptsWithinHours ==
    (hcall = "validate" /\ OpenDay /\ TimeParses /\ StrictlyFuture) =>
      /\ hresult.ok <=> /\ DayHours.open <= booking.time.minute
                        /\ booking.time.minute <= HourBefore(DayHours.close)
      /\ booking.time.minute < DayHours.open =>
           /\ hresult.reason.kind = "opens_at"
           /\ hresult.reason.open = DayHours.open
      /\ ( /\ booking.time.minute >= DayHours.open
           /\ booking.time.minute > HourBefore(DayHours.close) ) =>
           /\ hresult.reason.kind = "last_reservation"
           /\ hresult.reason.last = HourBefore(DayHours.close)

\* hours 17:00-23:00: a request for 22:00 of a day to come is accepted
C11_Witness ==
    /\ hcall = "validate"
    /\ OpenDay /\ StrictlyFuture
    /\ DayHours.open = 17 * 60 /\ DayHours.close = 23 * 60
    /\ booking.time = HhmmTime(22 * 60)
    /\ hresult.ok

\* C12: for a non-closed day and a parseable time, validate_reservation_time
\* rejects with the 'already passed' reason every request whose instant, in
\* the restaurant's zone when it has one and else in the process's zone, is
\* not strictly after the current instant, within the day's hours or not.
C12_PastRejected ==
    (hcall = "validate" /\ OpenDay /\ TimeParses /\ ~StrictlyFuture) =>
      /\ ~hresult.ok
      /\ hresult.reason.kind = "already_passed"

\* C13: validate_reservation_time fails with the 'hours not available for
\* <day>' reason when the schedule has no entry for the weekday of the date,
\* and with the 'closed on <day>' reason when that entry has is_closed true,
\* for every requested time: unparseable, absent, past or outside the hours.
C13_DayChecksFirst ==
    (hcall = "validate" /\ booking.date.kind = "ymd") =>
      /\ ~HasEntry =>
           /\ ~hresult.ok
           /\ hresult.reason = [kind |-> "hours_not_available", day |-> RequestDay]
      /\ (HasEntry /\ DayHours.is_closed) =>
           /\ ~hresult.ok
           /\ hresult.reason = [kind |-> "closed", day |-> RequestDay]

\* a Wednesday, for which the schedule has no entry, asked for with a time
\* that does not parse
C13_Witness ==
    /\ hcall = "validate"
    /\ booking.date = YmdDate(Today + 2)
    /\ ~HasEntry
    /\ booking.time = BadTime
    /\ hresult.reason.kind = "hours_not_available"
    /\ hresult.reason.day = "wednesday"

\* the zone is_restaurant_open is given, and the current instant in it
StatusZone == IF schedule.timezone = "" THEN "Asia/Kolkata" ELSE schedule.timezone

StatusNow == NowIn(StatusZone, clock)

StatusDay == DayNames[(StatusNow.day % 7) + 1]

TodayHours == schedule.operating_hours[StatusDay]

OpenToday == StatusDay \in DOMAIN schedule.operating_hours /\ ~TodayHours.is_closed

\* the current time is at or before the minute t
NotAfter(t) ==
    \/ StatusNow.minute < t
    \/ StatusNow.minute = t /\ StatusNow.second = 0

\* C14: for today's non-closed entry whose close is earlier than its open
\* (close 00:00 included), is_restaurant_open reports is_open = true exactly
\* when the current time is at or after open or at or before close, and
\* is_open = false at every time strictly between close and open.
C14_OvernightOpen ==
    (hcall = "is_open" /\ OpenToday /\ TodayHours.close < TodayHours.open) =>
      (hresult.is_open = TRUE) <=>
         (StatusNow.minute >= TodayHours.open \/ NotAfter(TodayHours.close))

\* the times open + 30*k minutes (k >= 0) of a day that are not later than
\* one hour before its close; there is none when close is before 01:00
HalfHoursUpToLast(open, close) ==
    { HhmmTime(open + 30 * k) : k \in {n \in 0..47 : open + 30 * n <= close - 60} }

ModelGaveDetails ==
    /\ pc = "done"
    /\ outcome = "text"
    /\ model_text.json
    /\ Has(model_text.value, "reservation_details")

ModelDetailsGiven == model_text.value["reservation_details"]

\* C16: when the parsed model response carries reservation_details, the
\* intent returned by process_voice_command keeps them (it comes from the
\* model path, nothing is raised), with date a valid YYYY-MM-DD date, today
\* when the model's date was invalid or missing, and with time '19:00'
\* whenever the model's time value was not a valid HH:MM string.
C16_DateTimeDefaults ==
    ModelGaveDetails =>
      /\ ~returned.raised
      /\ Has(Intent, "reservation_details")
      /\ Has(ReservationDetails(Intent), "date")
      /\ ReservationDetails(Intent)["date"].kind = "ymd"
      /\ ( \/ ~Has(ModelDetailsGiven, "date")
           \/ ModelDetailsGiven["date"].kind # "ymd" ) =>
           ReservationDetails(Intent)["date"] = YmdDate(clock.day)
      /\ ( /\ Has(ModelDetailsGiven, "time")
           /\ ModelDetailsGiven["time"].kind # "hhmm" ) =>
           ReservationDetails(Intent)["time"] = HhmmTime(19 * 60)

(***************************************************************************)
(* Claims on the text routines (SpecText).                                 *)
(***************************************************************************)
\* C17: for every input text, _extract_guest_count returns either 'not found'
\* (None) or an integer between 1 and 20 inclusive; counts above 20 are
\* clamped to 20 and counts below 1 to 1 ('for 25' gives 20, 'party of 0'
\* gives 1).
C17_GuestCountInRange ==
    tcall = "guest_count" =>
      /\ tresult = NoGuestCount \/ tresult \in 1..20
      /\ phrase = <<"f","o","r"," ","2","5">> => tresult = 20
      /\ phrase = <<"p","a","r","t","y"," ","o","f"," ","0">> => tresult = 1

\* 'for 25, 25 people' is answered 20
C17_Witness ==
    /\ tcall = "guest_count"
    /\ phrase = <<"f","o","r"," ","2","5",","," ","2","5"," ","p","e","o","p","l","e">>
    /\ tresult = 20

\* the counts the normalized text gives with '<N> adult(s)' and with
\* '<N> kid(s)', '<N> child(ren)'
AdultCounts == NumbersBefore({<<"a","d","u","l","t">>}, _normalize_text(phrase), 1)

KidCounts ==
    NumbersBefore({<<"k","i","d">>, <<"c","h","i","l","d">>},
                  _normalize_text(phrase), 1)

\* C18: whenever the text contains an explicit '<N> adult(s)' or
\* '<N> kid(s)/child(ren)' pattern, _extract_guest_count returns the sum of
\* the adult and child counts clamped to [1,20], before any 'party of N',
\* 'for N', 'N people' pattern and any number word of the same text.
C18_AdultsKidsFirst ==
    (tcall = "guest_count" /\ (AdultCounts # <<>> \/ KidCounts # <<>>)) =>
      tresult = Max(1, Min(20, Sum(AdultCounts) + Sum(KidCounts)))

\* C19: _normalize_text is idempotent: normalizing the normalized form of a
\* text returns it unchanged, and the result holds only lowercase word
\* characters separated by single spaces, with no leading or trailing space.
C19_NormalizeIdempotent ==
    tcall = "normalize" =>
      /\ _normalize_text(tresult) = tresult
      /\ \A i \in DOMAIN tresult :
           \/ tresult[i] \in AlphaSet \cup Digits \cup {"_"}
           \/ /\ tresult[i] = " "
              /\ 1 < i /\ i < Len(tresult)
              /\ tresult[i + 1] # " "

\* ' table!,  For 25' becomes 'table for 25'
C19_Witness ==
    /\ tcall = "normalize"
    /\ phrase = <<" ","t","a","b","l","e","!",","," ","F","o","r"," ","2","5">>
    /\ tresult = <<"t","a","b","l","e"," ","f","o","r"," ","2","5">>

(***************************************************************************)
(* Claims on the fallback (SpecFallback).                                  *)
(***************************************************************************)
GoldenSpoon == Diners[5]

\* the command holds one of the reservation keywords
HasReservationKeyword ==
    \E w \in { <<"b","o","o","k">>, <<"r","e","s","e","r","v","e">>,
               <<"t","a","b","l","e">>,
               <<"r","e","s","e","r","v","a","t","i","o","n">> } :
        Contains(w, lower(request))

\* the command names The Golden Spoon by the words 'golden spoon'
NamesGoldenSpoon ==
    WordBoundarySearch(<<"g","o","l","d","e","n"," ","s","p","o","o","n">>,
                       lower(request))

\* C20: with the model disabled, a command that contains a reservation
\* keyword and names a candidate restaurant by a word of its name ('book a
\* table for 4 tonight at Golden Spoon' with 'The Golden Spoon' in the list)
\* yields intent = 'reservation' and a restaurant match on that restaurant,
\* for every candidate list containing it, without raising.
C20_FallbackFindsNamed ==
    ( /\ pc = "done" /\ outcome = "disabled"
      /\ HasReservationKeyword /\ NamesGoldenSpoon
      /\ \E i \in DOMAIN restaurants : restaurants[i] = GoldenSpoon ) =>
      /\ ~returned.raised
      /\ Intent["intent"] = "reservation"
      /\ Found(Intent)
      /\ RestaurantMatch(Intent)["restaurant_id"] = GoldenSpoon.id
      /\ RestaurantMatch(Intent)["name"] = GoldenSpoon.name

(***************************************************************************)
(* Claims on the slot generator against the validator (SpecHours).         *)
(***************************************************************************)
\* the requested date is a day after today in the zone of the request
FutureDate == booking.date.kind = "ymd" /\ booking.date.day > ZoneNow.day

\* validate_reservation_time accepts the minute t of the requested date
AcceptedAt(t) ==
    validate_reservation_time(schedule, booking.date, HhmmTime(t), clock).ok

\* C28: the slot generator and the validator agree: for every schedule and
\* every future date, each time returned by generate_available_time_slots is
\* accepted by validate_reservation_time, and each time open + 30*k minutes
\* of that day that validate_reservation_time accepts is among the slots.
C28_SlotsAgreeWithValidator ==
    (hcall = "slots" /\ FutureDate) =>
      /\ \A i \in DOMAIN hresult : AcceptedAt(hresult[i].minute)
      /\ OpenDay =>
           \A k \in 0..47 :
              ( /\ DayHours.open + 30 * k < MinutesPerDay
                /\ AcceptedAt(DayHours.open + 30 * k) ) =>
              \E i \in DOMAIN hresult :
                 hresult[i] = HhmmTime(DayHours.open + 30 * k)

\* C29: for a non-closed day whose close time is earlier than its open time
\* (the restaurant closes after midnight) and whose true closing instant is
\* more than one hour after opening, validate_reservation_time accepts a
\* future-dated request at the opening time.
C29_OvernightDayBookable ==
    ( /\ hcall = "validate" /\ OpenDay /\ FutureDate
      /\ DayHours.close < DayHours.open
      /\ DayHours.close + MinutesPerDay - DayHours.open > 60
      /\ booking.time = HhmmTime(DayHours.open) ) =>
      hresult.ok

(***************************************************************************)
(* Claims on the scoring (SpecLong) and the manual search (SpecManual).    *)
(***************************************************************************)
\* the words longer than 2 characters of the normalized text, as a set
TokensOf(text) == {w \in Range(NormWords(text)) : Len(w) > 2}

\* the score of the candidate at position i, in hundredths
ScoreOf(i) ==
    LET shared == TokensOf(search) \cap TokensOf(restaurants[i].name)
    IN  IF Cardinality(shared) >= 2 THEN 90
        ELSE IF Cardinality(shared) = 1 THEN 70
        ELSE IF \E t \in TokensOf(search) :
                    Len(t) > 3 /\ t \in Range(NormWords(restaurants[i].name))
        THEN 65
        ELSE 0

\* the scores of the candidates, by position
Scores == [i \in DOMAIN restaurants |-> ScoreOf(i)]

\* the first position of the highest of the scores sc
TopPosition(sc) == Least({i \in DOMAIN sc : \A k \in DOMAIN sc : sc[k] <= sc[i]})

\* C24: when no candidate's normalized name equals the search text,
\* _find_best_restaurant_match scores each candidate 0.9 for two or more
\* shared tokens, 0.7 for exactly one, 0.65 for none but a search token
\* longer than 3 characters found as a whole word in the name, and 0
\* otherwise; it returns the candidate of the highest score (the first in
\* list order among equals) if that score exceeds 0.55, with at most 3
\* alternatives, each the name of a candidate scoring above 0.6.
C24_ScoresAndAlternatives ==
    (mcall = "find_best" /\ search # <<>> /\ ExactPositions = {}) =>
      LET Returned24(sc, top) ==
              IF sc[top] > 55
              THEN /\ match.found
                   /\ match.confidence = sc[top]
                   /\ match.restaurant_id = restaurants[top].id
                   /\ match.name = restaurants[top].name
                   /\ Len(match.alternatives) <= 3
                   /\ \A a \in DOMAIN match.alternatives :
                        \E i \in DOMAIN restaurants :
                           /\ restaurants[i].name = match.alternatives[a]
                           /\ sc[i] > 60
              ELSE ~match.found /\ match.confidence = 0
          Scored(sc) == Returned24(sc, TopPosition(sc))
      IN  IF restaurants = <<>>
          THEN ~match.found /\ match.confidence = 0
          ELSE Scored(Scores)

\* 'nagasai hotel' against the five restaurants: four of them score above
\* 0.6, Hotel Nagasai is returned with 0.9 and three alternatives
C24_Witness ==
    /\ mcall = "find_best"
    /\ restaurants = Catalogue
    /\ NormWords(search) = <<W_nagasai, W_hotel>>
    /\ ExactPositions = {}
    /\ Cardinality({i \in DOMAIN restaurants : Scores[i] > 60}) = 4
    /\ match.found
    /\ match.confidence = 90
    /\ match.restaurant_id = 1
    /\ Len(match.alternatives) = 3

\* the texts captured after 'at', then after 'book', then after 'reserve'
CapturedTexts ==
    FindAllAfter(<<"a","t">>, lower(search), 1)
    \o FindAllAfter(<<"b","o","o","k">>, lower(search), 1)
    \o FindAllAfter(<<"r","e","s","e","r","v","e">>, lower(search), 1)

CommandWords == split(lower(search))

\* the windows of 1 to 3 command words are numbered by start position and
\* then length: window k starts at word k \div 3 + 1 and has k % 3 + 1 words
WindowText(k) ==
    IF (k \div 3) + (k % 3) + 1 <= Len(CommandWords)
    THEN join(SubSeq(CommandWords, (k \div 3) + 1, (k \div 3) + (k % 3) + 1))
    ELSE <<>>

\* the scorer's result for a candidate text
ScorerOn(candidate) == _find_best_restaurant_match(strip(candidate), restaurants)

AcceptedCaptures == {p \in DOMAIN CapturedTexts : ScorerOn(CapturedTexts[p]).found}

AcceptedWindows ==
    {k \in 0..(3 * Len(CommandWords) - 1) :
        Len(WindowText(k)) > 3 /\ ScorerOn(WindowText(k)).found}

\* C23: _manual_restaurant_search tries the texts captured after 'at', then
\* after 'book', then after 'reserve', then every contiguous window of 1 to
\* 3 command words that is longer than 3 characters, by start position and
\* then length; it returns the scorer's result for the first candidate the
\* scorer accepts, and found = false only when the scorer accepts none.
C23_ManualSearchOrder ==
    mcall = "manual" =>
      LET FirstOf(captures, windows) ==
              IF captures # {}
              THEN match = ScorerOn(CapturedTexts[Least(captures)])
              ELSE IF windows # {}
              THEN match = ScorerOn(WindowText(Least(windows)))
              ELSE match = NoMatch
      IN  FirstOf(AcceptedCaptures, AcceptedWindows)

\* 'taj nagasai' with Nagasai before Hotel Taj: nothing is captured, the
\* window 'taj nagasai' comes before the window 'nagasai' and gives Nagasai
\* with 0.7, where 'nagasai' alone would give it with 1.0
C23_Witness ==
    /\ mcall = "manual"
    /\ search = W_taj \o <<" ">> \o W_nagasai
    /\ restaurants = <<Catalogue[2], Catalogue[3]>>
    /\ AcceptedCaptures = {}
    /\ AcceptedWindows = {1, 3}
    /\ match.found
    /\ match.restaurant_id = 2
    /\ match.confidence = 70

\* ---------------------------------------------------------------------
\* Claims on the outcome of a failed hallucination guard (Spec)
\* ---------------------------------------------------------------------

\* the name the model suggests
SuggestedName == Get(RestaurantMatch(model_text.value), "name", <<>>)

\* the result of the manual pattern matcher on the original command
ManualResult == _manual_restaurant_search(request, restaurants)

\* the model's match after the cross-check of lines 292-304
ModelPathMatch ==
    MatchSuggested(RestaurantMatch(model_text.value), SuggestedName, restaurants)

\* the model claims a match, the guard of line 312 fails for the suggested
\* name and the manual matcher finds a restaurant in the command
GuardFailedManualFound ==
    /\ Done /\ outcome = "text" /\ model_text.json
    /\ Found(model_text.value)
    /\ GuardFails(SuggestedName, request)
    /\ ManualResult.found

\* the validation of the details that follows the guard has returned (the
\* answer is not the fallback's) and its hours check (lines 354-377) has left
\* the action alone
DetailsLeaveAction ==
    /\ Intent.response_message.kind # "understood"
    /\ Get(Intent, "time_validation", [is_valid |-> TRUE]).is_valid

C22_WitnessDowngraded ==
    /\ GuardFailedManualFound
    /\ ManualResult.confidence < Max(Get(ModelPathMatch, "confidence", 0), 70)
    /\ DetailsLeaveAction
    /\ RestaurantMatch(Intent).name = SuggestedName
    /\ RestaurantMatch(Intent).confidence = 50
    /\ Intent.action_required = "ask_clarification"

\* ---------------------------------------------------------------------
\* Claims on the restaurant a returned intent reports (Spec)
\* ---------------------------------------------------------------------

\* the positions of the candidate list whose restaurant has this id and,
\* letter case aside, this name
CandidatesReported(restaurant_match) ==
    { i \in 1..Len(restaurants) :
        /\ restaurants[i].id = restaurant_match.restaurant_id
        /\ lower(restaurants[i].name) = lower(restaurant_match.name) }

\* the name the model suggests corresponds to no candidate: no restaurant of
\* the list has it, and the fuzzy matcher finds none for it
SuggestedNameUnknown ==
    /\ outcome = "text" /\ model_text.json
    /\ Found(model_text.value)
    /\ ExactNamePosition(SuggestedName, restaurants, 1) = 0
    /\ ~_find_best_restaurant_match(SuggestedName, restaurants).found

\* C26: in every returned intent with restaurant_match.found true,
\* restaurant_match.restaurant_id is the id of a restaurant of the candidate
\* list, whose name is the one reported; a name the model suggests that
\* corresponds to no candidate is never reported as found.
C26_FoundIsACandidate ==
    (Done /\ Get(RestaurantMatch(Intent), "found", FALSE)) =>
        /\ Has(RestaurantMatch(Intent), "restaurant_id")
        /\ CandidatesReported(RestaurantMatch(Intent)) # {}
        /\ SuggestedNameUnknown =>
               lower(RestaurantMatch(Intent).name) # lower(SuggestedName)

\* the model's name corresponds to no candidate and the returned intent
\* reports a restaurant of the list found in the command instead
C26_Witness ==
    /\ Done /\ SuggestedNameUnknown
    /\ Get(RestaurantMatch(Intent), "found", FALSE)
    /\ CandidatesReported(RestaurantMatch(Intent)) # {}
    /\ RestaurantMatch(Intent).name # SuggestedName

\* the model's name corresponds to no candidate, nothing is found in the
\* command and the returned intent reports no restaurant
C26_WitnessNotFound ==
    /\ Done /\ SuggestedNameUnknown
    /\ ~Get(RestaurantMatch(Intent), "found", FALSE)
    /\ restaurants # <<>>

\* C27: in every returned intent that carries reservation_details, guests is
\* an integer from 1 to 20, also when the model supplies the count.
C27_GuestsWithinRange ==
    (Done /\ Has(Intent, "reservation_details")) =>
        /\ Has(ReservationDetails(Intent), "guests")
        /\ ReservationDetails(Intent)["guests"].int
        /\ ReservationDetails(Intent)["guests"].value >= 1
        /\ ReservationDetails(Intent)["guests"].value <= 20

(***************************************************************************)
(* Concurrent resolution requests: process_voice_command calls on one      *)
(* service object and one candidate list, their steps interleaved.  A call *)
(* is [command, given, pc, outcome, text, response, result]: given is the  *)
(* list as it was handed over, response the dict parsed from the model's   *)
(* text, which the validation updates in place.                            *)
(***************************************************************************)
\* lines 332-378 on the response whose restaurant match is validated
ValidateReservationDetails(matched, rs, original_command, now) ==
    LET Hours(details) ==
            Returned(ValidateHours(Set(matched, "reservation_details", details),
                                   details, rs, now))
        Details(details) ==
            IF \/ Has(details, "date") /\ details["date"].kind = "null"
               \/ Has(details, "time") /\ details["time"].kind = "null"
            THEN Raised
            ELSE Hours(ValidGuests(ValidTime(ValidDate(details, now)),
                                   original_command))
    IN  IF ~Has(matched, "reservation_details") THEN Returned(matched)
        ELSE Details(matched["reservation_details"])

\* the response of a call as if the calls shared one response object
KeepResponseShared(cs, c, response) ==
    [k \in DOMAIN cs |-> [cs[k] EXCEPT !.response = response]]

\* lines 264-267 and 286: the response is an object of the call's own, parsed
\* from the model's text by json.loads
KeepResponse(cs, c, response) == [cs EXCEPT ![c].response = response]

CallCommands ==
    { JoinWith(<<W_book, W_taj>>, <<" ">>), W_nagasai, W_hi }

CallLists ==
    { <<Catalogue[1], Catalogue[3]>>, <<Catalogue[3]>> }

\* the model's texts: no JSON, a known name with details to repair, an
\* unknown name with a time for the operating hours, and a null time
CallTexts ==
    { NoJson,
      [json |-> TRUE,
       value |-> [intent |-> "reservation", confidence |-> 90,
                  restaurant_match |-> [found |-> TRUE, confidence |-> 95,
                      name |-> <<"H","o","t","e","l"," ","T","a","j">>],
                  reservation_details |->
                      [guests |-> NonIntGuests, date |-> BadDate, time |-> BadTime],
                  time_validation |-> [is_valid |-> TRUE, message |-> [kind |-> "none"]],
                  response_message |-> [kind |-> "model"],
                  action_required |-> "book_table"]],
      [json |-> TRUE,
       value |-> [intent |-> "reservation", confidence |-> 90,
                  restaurant_match |-> [found |-> TRUE, confidence |-> 95,
                      name |-> <<"S","a","i">>],
                  reservation_details |->
                      [guests |-> GuestInt(4), date |-> YmdDate(Today + 1),
                       time |-> HhmmTime(23 * 60 + 30)],
                  time_validation |-> [is_valid |-> TRUE, message |-> [kind |-> "none"]],
                  response_message |-> [kind |-> "model"],
                  action_required |-> "make_reservation"]],
      [json |-> TRUE,
       value |-> [intent |-> "reservation", confidence |-> 90,
                  restaurant_match |-> NoMatch,
                  reservation_details |->
                      [guests |-> GuestInt(4), date |-> YmdDate(Today + 1),
                       time |-> NullTime],
                  time_validation |-> [is_valid |-> TRUE, message |-> [kind |-> "none"]],
                  response_message |-> [kind |-> "model"],
                  action_required |-> "ask_clarification"]] }

CallNumbers == {1, 2}

CallsInit ==
    /\ restaurants \in CallLists
    /\ enabled \in BOOLEAN
    /\ clock = Noon
    /\ calls \in { [c \in CallNumbers |->
                      [command |-> commands[c], given |-> restaurants,
                       pc |-> "ready", outcome |-> "none", text |-> NoJson,
                       response |-> EmptyDict, result |-> Raised]]
                   : commands \in [CallNumbers -> CallCommands] }
    /\ search = <<>>
    /\ match = NoMatch
    /\ mcall = "none"
    /\ request = <<>>
    /\ outcome = "none"
    /\ model_text = NoJson
    /\ returned = Raised
    /\ pc = "ready"
    /\ NoHours
    /\ NoText
    /\ posts = <<>>
    /\ users = <<>>
    /\ reservations = <<>>

\* what the steps of a call leave alone: the list, the service object and
\* everything outside the calls
CallsFrame ==
    UNCHANGED <<search, restaurants, match, mcall, request, enabled, clock,
                outcome, model_text, returned, pc, hours_vars, text_vars,
                posts, users, reservations>>

\* lines 56-57: a disabled service answers by the fallback
BeginDisabled(c) ==
    /\ calls[c].pc = "ready"
    /\ ~enabled
    /\ calls' = [calls EXCEPT ![c].pc = "done", ![c].outcome = "disabled",
                              ![c].result = OnDisabled(calls[c].command, restaurants)]
    /\ CallsFrame

\* lines 59-71: the prompt is built from the list and handed to the model
BeginEnabled(c) ==
    /\ calls[c].pc = "ready"
    /\ enabled
    /\ calls' = [calls EXCEPT ![c].pc = "asked"]
    /\ CallsFrame

\* line 71 returns the model's text
ModelReturns(c) ==
    /\ calls[c].pc = "asked"
    /\ \E t \in CallTexts :
          calls' = [calls EXCEPT ![c].pc = "answered", ![c].outcome = "text",
                                 ![c].text = t]
    /\ CallsFrame

\* line 71 raises: lines 90-92
ModelRaises(c) ==
    /\ calls[c].pc = "asked"
    /\ calls' = [calls EXCEPT ![c].pc = "done", ![c].outcome = "raised",
                              ![c].result = OnModelError(calls[c].command, restaurants)]
    /\ CallsFrame

\* lines 259-284: the text is parsed
ParseText(c) ==
    /\ calls[c].pc = "answered"
    /\ calls' = IF calls[c].text.json
                THEN [KeepResponse(calls, c, calls[c].text.value)
                         EXCEPT ![c].pc = "parsed"]
                ELSE [KeepResponse(calls, c, TroubleUnderstanding)
                         EXCEPT ![c].pc = "validated"]
    /\ CallsFrame

\* lines 288-330: the restaurant match of the response is validated
CheckMatch(c) ==
    /\ calls[c].pc = "parsed"
    /\ calls' = [KeepResponse(calls, c,
                     ValidateMatch(calls[c].response, restaurants, calls[c].command))
                   EXCEPT ![c].pc = "matched"]
    /\ CallsFrame

\* lines 332-378: the details of the response are validated; an exception
\* ends the call in the fallback (lines 90-92)
CheckDetails(c) ==
    /\ calls[c].pc = "matched"
    /\ LET Step(checked) ==
               IF checked.raised
               THEN [calls EXCEPT
                        ![c].pc = "done",
                        ![c].result =
                            Returned(_fallback_processing(calls[c].command, restaurants))]
               ELSE [KeepResponse(calls, c, checked.value)
                        EXCEPT ![c].pc = "validated"]
       IN  calls' = Step(ValidateReservationDetails(calls[c].response, restaurants,
                                                    calls[c].command, clock))
    /\ CallsFrame

\* lines 80-88: the manual fallback, and the return
Finish(c) ==
    /\ calls[c].pc = "validated"
    /\ calls' = [calls EXCEPT
                    ![c].pc = "done",
                    ![c].result =
                        Returned(ManualFallback(calls[c].response, calls[c].command,
                                                restaurants))]
    /\ CallsFrame

CallsNext ==
    \E c \in CallNumbers :
        \/ BeginDisabled(c)
        \/ BeginEnabled(c)
        \/ ModelReturns(c)
        \/ ModelRaises(c)
        \/ ParseText(c)
        \/ CheckMatch(c)
        \/ CheckDetails(c)
        \/ Finish(c)

SpecCalls == CallsInit /\ [][CallsNext]_vars

\* ---------------------------------------------------------------------
\* Claims on concurrent resolution requests (SpecCalls)
\* ---------------------------------------------------------------------

\* what the call returns when it runs alone on the list it was given, with
\* the same model output and clock
Alone(call) ==
    IF call.outcome = "disabled" THEN OnDisabled(call.command, call.given)
    ELSE IF call.outcome = "raised" THEN OnModelError(call.command, call.given)
    ELSE OnModelText(call.text, call.command, call.given, clock)

\* C21: the steps of a resolution request leave the candidate list and its
\* records as they were handed over, and in every interleaving of concurrent
\* process_voice_command calls each finished call has returned the intent it
\* returns when run alone on the same inputs, model output and clock.
C21_CallsDoNotInterfere ==
    \A c \in DOMAIN calls :
        /\ restaurants = calls[c].given
        /\ calls[c].pc = "done" => calls[c].result = Alone(calls[c])

\* both calls have finished on texts of the model, the first between the
\* steps of the second, with different intents
C21_Witness ==
    /\ DOMAIN calls = CallNumbers
    /\ \A c \in CallNumbers : calls[c].pc = "done" /\ calls[c].outcome = "text"
    /\ calls[1].text # calls[2].text
    /\ calls[1].text.json /\ calls[2].text.json
    /\ ~calls[1].result.raised /\ ~calls[2].result.raised
    /\ calls[1].result # calls[2].result
    /\ calls[1].result = Alone(calls[1])

(***************************************************************************)
(* The routes that create reservations: POST /reservations and             *)
(* POST /voicebot/book-reservation (src/backend/main.py).  A request body  *)
(* is a dict; a restaurant_id is [kind, n]: "oid" for the text of the      *)
(* ObjectId of restaurant n, "text" for a text that is no ObjectId, "null" *)
(* for None.  Both handlers are coroutines that await nothing, so each     *)
(* runs as one step.                                                       *)
(***************************************************************************)
Oid(n) == [kind |-> "oid", n |-> n]

NotAnOid == [kind |-> "text", n |-> 0]

NullId == [kind |-> "null", n |-> 0]

\* str(restaurant_id): str(None) is the text 'None'
StrOfId(restaurant_id) ==
    IF restaurant_id.kind = "null" THEN NotAnOid ELSE restaurant_id

\* the truth value of a field of the body: None is false
Truthy(value) == value.kind # "null"

\* the outcome of a handler: the status of the response and the document
\* inserted, if any
Responded(status) == [status |-> status, inserted |-> FALSE]

Created(doc) == [status |-> 200, inserted |-> TRUE, doc |-> doc]

\* main.py lines 1097-1167 without the restaurant lookup and the validation
\* of lines 1139-1164
create_reservation_unchecked(reservation_data, rs, now) ==
    Created(Set(reservation_data, "status", "confirmed"))

\* main.py lines 1097-1167
create_reservation(reservation_data, rs, now) ==
    LET Validate(data, p) ==
            IF p = 0 THEN Responded(404)
            ELSE IF ~validate_reservation_time(rs[p], data["date"], data["time"],
                                               now).ok
            THEN Responded(400)
            ELSE Created(Set(data, "restaurant_name", rs[p].name))
        Lookup(data) ==
            IF ~Truthy(Get(data, "date", NullDate))
               \/ ~Truthy(Get(data, "time", NullTime))
            THEN Responded(400)
            ELSE IF data["restaurant_id"].kind # "oid" THEN Responded(400)
            ELSE Validate(data, RestaurantById(data["restaurant_id"].n, rs, 1))
        Alias(data, key, other) ==
            IF ~Has(data, key) /\ Has(data, other)
            THEN Set(data, key, data[other]) ELSE data
        Fields(data) ==
            IF ~Truthy(Get(data, "restaurant_id", NullId)) THEN Responded(400)
            ELSE Lookup(Alias(Alias(Alias(data, "date", "reservation_date"),
                                    "time", "reservation_time"),
                              "guests", "party_size"))
        Stamp(data) ==
            Fields(Set(Set(IF Has(data, "restaurant_id")
                           THEN Set(data, "restaurant_id",
                                    StrOfId(data["restaurant_id"]))
                           ELSE data,
                           "user_email", "user"), "user_id", "user"))
    IN  Stamp(Set(Set(reservation_data, "created_at", now), "status", "confirmed"))

\* main.py lines 361-409; ObjectId raises on a text that is no ObjectId, which
\* line 462 turns into the status 500
book_reservation_via_voice(booking_data, rs, now) ==
    LET Validate(restaurant_id, date, time, p) ==
            IF p = 0 THEN Responded(404)
            ELSE IF ~validate_reservation_time(rs[p], date, time, now).ok
            THEN Responded(400)
            ELSE Created([restaurant_id |-> restaurant_id,
                          restaurant_name |-> rs[p].name,
                          date |-> date, time |-> time,
                          guests |-> Get(booking_data, "guests", 2),
                          user_email |-> "user", user_id |-> "user",
                          status |-> "confirmed", created_at |-> now,
                          booking_method |-> "voice_command"])
        Fields(restaurant_id, date, time) ==
            IF ~(Truthy(restaurant_id) /\ Truthy(date) /\ Truthy(time))
            THEN Responded(400)
            ELSE IF restaurant_id.kind # "oid" THEN Responded(500)
            ELSE Validate(restaurant_id, date, time,
                          RestaurantById(restaurant_id.n, rs, 1))
    IN  Fields(Get(booking_data, "restaurant_id", NullId),
               Get(booking_data, "date", NullDate),
               Get(booking_data, "time", NullTime))

\* the bodies of the requests: a table at Hotel Nagasai (17:00 to 23:00)
\* tomorrow at 19:00 and at 23:30, at Hotel Taj on its closed Monday, at the
\* inactive restaurant, at a restaurant that is not in the collection, with
\* an id that is no ObjectId or None or absent, without a time or with None,
\* with the date and time under their other names, with an unparsable date,
\* and with a status of the client's
Bodies ==
    { [restaurant_id |-> Oid(1), date |-> YmdDate(Today + 1),
       time |-> HhmmTime(19 * 60), guests |-> 4],
      [restaurant_id |-> Oid(1), date |-> YmdDate(Today + 1),
       time |-> HhmmTime(23 * 60 + 30), guests |-> 4],
      [restaurant_id |-> Oid(3), date |-> YmdDate(Today),
       time |-> HhmmTime(19 * 60), guests |-> 2],
      [restaurant_id |-> Oid(2), date |-> YmdDate(Today + 1),
       time |-> HhmmTime(19 * 60)],
      [restaurant_id |-> Oid(9), date |-> YmdDate(Today + 1),
       time |-> HhmmTime(19 * 60), guests |-> 4],
      [restaurant_id |-> NotAnOid, date |-> YmdDate(Today + 1),
       time |-> HhmmTime(19 * 60), guests |-> 4],
      [restaurant_id |-> NullId, date |-> YmdDate(Today + 1),
       time |-> HhmmTime(19 * 60), guests |-> 4],
      [date |-> YmdDate(Today + 1), time |-> HhmmTime(19 * 60), guests |-> 4],
      [restaurant_id |-> Oid(1), date |-> YmdDate(Today + 1), guests |-> 4],
      [restaurant_id |-> Oid(1), date |-> YmdDate(Today + 1), time |-> NullTime],
      [restaurant_id |-> Oid(1), reservation_date |-> YmdDate(Today + 1),
       reservation_time |-> HhmmTime(19 * 60), party_size |-> 4],
      [restaurant_id |-> Oid(1), date |-> BadDate, time |-> HhmmTime(19 * 60)],
      [restaurant_id |-> Oid(1), date |-> YmdDate(Today + 1),
       time |-> HhmmTime(20 * 60), status |-> "cancelled"] }

Routes == {"/reservations", "/voicebot/book-reservation"}

PostNumbers == {1, 2}

\* a reservation made before the requests
EarlierReservation ==
    [restaurant_id |-> Oid(1), restaurant_name |-> Catalogue[1].name,
     date |-> YmdDate(Today + 1), time |-> HhmmTime(18 * 60), guests |-> 2,
     user_email |-> "user", user_id |-> "user", status |-> "confirmed",
     created_at |-> Noon]

ReservationsInit ==
    /\ restaurants = Catalogue
    /\ clock = Noon
    /\ reservations \in {<<>>, <<EarlierReservation>>}
    /\ posts \in [PostNumbers ->
                    [route : Routes, body : Bodies, status : {0}, reservation : {0}]]
    /\ users = <<>>
    /\ calls = <<>>
    /\ search = <<>>
    /\ match = NoMatch
    /\ mcall = "none"
    /\ request = <<>>
    /\ enabled = FALSE
    /\ outcome = "none"
    /\ model_text = NoJson
    /\ returned = Raised
    /\ pc = "ready"
    /\ NoHours
    /\ NoText

\* what a handler changes with its outcome: the response of the request and,
\* on an insert, the collection
Respond(r, done) ==
    /\ reservations' = IF done.inserted THEN Append(reservations, done.doc)
                       ELSE reservations
    /\ posts' = [posts EXCEPT
                    ![r].status = done.status,
                    ![r].reservation = IF done.inserted THEN Len(reservations) + 1
                                       ELSE 0]
    /\ UNCHANGED <<search, restaurants, match, mcall, request, enabled, clock,
                   outcome, model_text, returned, pc, hours_vars, text_vars,
                   calls, users>>

CreateReservation(r) ==
    /\ posts[r].status = 0
    /\ posts[r].route = "/reservations"
    /\ Respond(r, create_reservation(posts[r].body, restaurants, clock))

BookReservationViaVoice(r) ==
    /\ posts[r].status = 0
    /\ posts[r].route = "/voicebot/book-reservation"
    /\ Respond(r, book_reservation_via_voice(posts[r].body, restaurants, clock))

ReservationsNext ==
    \E r \in PostNumbers : CreateReservation(r) \/ BookReservationViaVoice(r)

SpecReservations == ReservationsInit /\ [][ReservationsNext]_vars

\* ---------------------------------------------------------------------
\* Claims on the routes that create reservations (SpecReservations)
\* ---------------------------------------------------------------------

\* the date and the time of a request: POST /reservations also takes them
\* from reservation_date and reservation_time
FieldOf(post, key, other, none) ==
    IF Has(post.body, key) THEN post.body[key]
    ELSE IF post.route = "/reservations" THEN Get(post.body, other, none)
    ELSE none

DateOf(post) == FieldOf(post, "date", "reservation_date", NullDate)

TimeOf(post) == FieldOf(post, "time", "reservation_time", NullTime)

\* the positions in the restaurants collection of the restaurant a request
\* or a reservation names
RestaurantsOf(restaurant_id) ==
    { p \in DOMAIN restaurants :
        restaurant_id.kind = "oid" /\ restaurants[p].id = restaurant_id.n }

\* the restaurant exists and validate_reservation_time succeeds for it with
\* this date and time
Bookable(restaurant_id, date, time) ==
    \E p \in RestaurantsOf(restaurant_id) :
        /\ date.kind # "null" /\ time.kind # "null"
        /\ validate_reservation_time(restaurants[p], date, time, clock).ok

PostBookable(post) ==
    Bookable(Get(post.body, "restaurant_id", NullId), DateOf(post), TimeOf(post))

\* C25: every reservation in the collection has the status 'confirmed' and
\* names an existing restaurant for which validate_reservation_time succeeds
\* with its date and time; a request whose restaurant is missing, whose date
\* or time is missing or whose validation fails has ended in an error and
\* has inserted nothing, and the collection holds one reservation more for
\* each request that succeeded and nothing else.
C25_InsertOnlyWhenValidated ==
    /\ \A i \in DOMAIN reservations :
          /\ Get(reservations[i], "status", "") = "confirmed"
          /\ Bookable(Get(reservations[i], "restaurant_id", NullId),
                      Get(reservations[i], "date", NullDate),
                      Get(reservations[i], "time", NullTime))
    /\ \A r \in DOMAIN posts :
          /\ posts[r].status # 0 /\ ~PostBookable(posts[r]) =>
                 posts[r].status >= 400 /\ posts[r].reservation = 0
          /\ posts[r].reservation # 0 =>
                 /\ posts[r].status = 200
                 /\ posts[r].reservation \in DOMAIN reservations
                 /\ Get(reservations[posts[r].reservation], "date", NullDate)
                        = DateOf(posts[r])
                 /\ Get(reservations[posts[r].reservation], "time", NullTime)
                        = TimeOf(posts[r])
    /\ \E earlier \in {0, 1} :
          Len(reservations)
              = earlier + Cardinality({r \in DOMAIN posts : posts[r].reservation # 0})

\* one request was refused for its time and left the collection alone, the
\* other one inserted a confirmed reservation over the client's own status
C25_Witness ==
    /\ DOMAIN posts = PostNumbers
    /\ posts[1].status = 400 /\ posts[1].reservation = 0
    /\ Get(posts[1].body, "restaurant_id", NullId) = Oid(1)
    /\ TimeOf(posts[1]) = HhmmTime(23 * 60 + 30)
    /\ posts[2].status = 200 /\ posts[2].reservation = Len(reservations)
    /\ Get(posts[2].body, "status", "") = "cancelled"
    /\ reservations[Len(reservations)].status = "confirmed"
    /\ Len(reservations) = 2

(***************************************************************************)
(* POST /auth/register (src/backend/main.py lines 857-958).  The handler   *)
(* is a coroutine that awaits nothing between the lookup of line 885 and   *)
(* the insert of line 919, and the server runs one event loop (line 1367), *)
(* so the registrations take their steps one whole handler at a time, in   *)
(* any order.  An email is a string, a phone a sequence of characters.     *)
(***************************************************************************)
\* ''.join(filter(str.isdigit, s))
RECURSIVE DigitsOf(_)
DigitsOf(s) ==
    IF s = <<>> THEN <<>>
    ELSE (IF s[1] \in Digits THEN <<s[1]>> ELSE <<>>) \o DigitsOf(Tail(s))

\* lines 901-906: a user whose phone has these digits
PhoneTaken(clean_phone, us) ==
    \E i \in DOMAIN us :
        Has(us[i], "phone") /\ DigitsOf(us[i].phone) = clean_phone

\* lines 857-958 without the lookup of lines 885-888
register_without_lookup(credentials, us) ==
    LET phone == Get(credentials, "phone", <<>>)
    IN  IF \/ Get(credentials, "email", "") = ""
           \/ Get(credentials, "password", "") = ""
           \/ Get(credentials, "full_name", "") = ""
        THEN Responded(400)
        ELSE IF strip(phone) # <<>> /\ Len(DigitsOf(strip(phone))) < 10
        THEN Responded(400)
        ELSE IF strip(phone) # <<>> /\ PhoneTaken(DigitsOf(strip(phone)), us)
        THEN Responded(400)
        ELSE Created([email |-> credentials.email,
                      full_name |-> credentials.full_name,
                      phone |-> strip(phone), is_active |-> TRUE])

\* lines 857-958
register(credentials, us) ==
    LET phone == Get(credentials, "phone", <<>>)
    IN  IF \/ Get(credentials, "email", "") = ""
           \/ Get(credentials, "password", "") = ""
           \/ Get(credentials, "full_name", "") = ""
        THEN Responded(400)
        ELSE IF strip(phone) # <<>> /\ Len(DigitsOf(strip(phone))) < 10
        THEN Responded(400)
        ELSE IF \E i \in DOMAIN us : us[i].email = credentials.email
        THEN Responded(400)
        ELSE IF strip(phone) # <<>> /\ PhoneTaken(DigitsOf(strip(phone)), us)
        THEN Responded(400)
        ELSE Created([email |-> credentials.email,
                      full_name |-> credentials.full_name,
                      phone |-> strip(phone), is_active |-> TRUE])

PhoneA == <<"9","8","7","6","5","4","3","2","1","0">>

\* the digits of PhoneA written with a space and a dash
PhoneASpaced == <<"9","8","7","6","5"," ","4","3","2","-","1","0">>

PhoneB == <<"9","0","0","0","0","0","0","0","0","1">>

ShortPhone == <<"1","2","3","4","5">>

\* the bodies of the registrations: two emails, one of them also in upper
\* case, with no phone, one of two phones or a phone that is too short, and
\* bodies without an email or a name
Credentials ==
    { [email |-> e, password |-> "secret", full_name |-> "Asha", phone |-> ph]
        : e \in {"asha@example.com", "ravi@example.com"},
          ph \in {<<>>, PhoneA, PhoneASpaced, PhoneB} }
    \cup
    { [email |-> "ASHA@example.com", password |-> "secret", full_name |-> "Asha"],
      [email |-> "ravi@example.com", password |-> "secret", full_name |-> "Ravi",
       phone |-> ShortPhone],
      [password |-> "secret", full_name |-> "Asha"],
      [email |-> "asha@example.com", password |-> "secret", full_name |-> ""] }

RegistrationNumbers == {1, 2, 3}

\* a user registered before the requests
EarlierUser ==
    [email |-> "asha@example.com", full_name |-> "Asha", phone |-> <<>>,
     is_active |-> TRUE]

RegisterInit ==
    /\ users \in {<<>>, <<EarlierUser>>}
    /\ posts \in [RegistrationNumbers ->
                    [route : {"/auth/register"}, body : Credentials,
                     status : {0}, user : {0}]]
    /\ reservations = <<>>
    /\ calls = <<>>
    /\ search = <<>>
    /\ restaurants = <<>>
    /\ match = NoMatch
    /\ mcall = "none"
    /\ NoRequest
    /\ NoHours
    /\ NoText

Register(r) ==
    /\ posts[r].status = 0
    /\ LET Answer(done) ==
               /\ users' = IF done.inserted THEN Append(users, done.doc) ELSE users
               /\ posts' = [posts EXCEPT
                               ![r].status = done.status,
                               ![r].user = IF done.inserted THEN Len(users) + 1
                                           ELSE 0]
       IN  Answer(register(posts[r].body, users))
    /\ UNCHANGED <<search, restaurants, match, mcall, request, enabled, clock,
                   outcome, model_text, returned, pc, hours_vars, text_vars,
                   calls, reservations>>

RegisterNext == \E r \in RegistrationNumbers : Register(r)

SpecRegister == RegisterInit /\ [][RegisterNext]_vars

\* ---------------------------------------------------------------------
\* Claims on the registrations (SpecRegister)
\* ---------------------------------------------------------------------

\* the users with this email other than user k
OthersWithEmail(email, k) ==
    { i \in DOMAIN users : i # k /\ users[i].email = email }

\* C30: in whatever order the concurrent registrations are handled, the users
\* collection holds at most one user for each email address; a registration
\* whose email belongs to a user it did not insert itself has been rejected
\* and has inserted nothing, and the collection holds one user more for each
\* registration that succeeded and nothing else.
C30_OneUserPerEmail ==
    /\ \A i, j \in DOMAIN users : users[i].email = users[j].email => i = j
    /\ \A r \in DOMAIN posts :
          (/\ posts[r].status # 0
           /\ Has(posts[r].body, "email")
           /\ OthersWithEmail(posts[r].body.email, posts[r].user) # {}) =>
              posts[r].status = 400 /\ posts[r].user = 0
    /\ \E earlier \in {0, 1} :
          Len(users) = earlier + Cardinality({r \in DOMAIN posts : posts[r].user # 0})

\* three registrations with one email, each with another phone, have been
\* handled: one is the user, two were rejected
C30_Witness ==
    /\ DOMAIN posts = RegistrationNumbers
    /\ \A r \in RegistrationNumbers :
          /\ posts[r].status # 0
          /\ Get(posts[r].body, "email", "") = "ravi@example.com"
    /\ Cardinality({Get(posts[r].body, "phone", <<>>) : r \in RegistrationNumbers}) = 3
    /\ Cardinality({r \in RegistrationNumbers : posts[r].status = 400}) = 2
    /\ Cardinality({i \in DOMAIN users : users[i].email = "ravi@example.com"}) = 1
    /\ \E r \in RegistrationNumbers :
          /\ posts[r].user # 0
          /\ users[posts[r].user].phone = strip(Get(posts[r].body, "phone", <<>>))

====
